---- MODULE Spec2Model ----
(***************************************************************************)
(* Foreign transaction manager (src/backend/access/fdwxact/fdwxact.c):     *)
(* the shared FdwXact table, its WAL records and spill files, the commit   *)
(* path of a backend, the resolver and the administrative functions.       *)
(*                                                                         *)
(* Every section that the code runs under FdwXactLock is one atomic        *)
(* action; code that runs without the lock is split at every point where   *)
(* another process can be scheduled and change what is read next.          *)
(***************************************************************************)
EXTENDS Integers, Sequences, FiniteSets, TLC

\* ------------------------------------------------------------------ bounds
\* max_prepared_foreign_xacts: number of slots of the pool
MaxPrepared == 2
\* number of WAL records the table-level specification may write
MaxWal == 3
\* number of backends
NumBackends == 2
\* number of local transactions (xids) started in one run
MaxXacts == 2
MaxAdminXacts == 1
\* local transactions and crashes in the specification with crash recovery
MaxCrashXacts == 1
MaxCrashes == 1
\* length of the WAL sequences replayed in the redo specification
MaxRedoWal == 4
\* number of times a WAL sequence is replayed over the same table
MaxReplays == 3
\* local transactions in the specification of pre-commit
MaxCommitXacts == 1
\* iterations of a loop over participants, entries or files in the
\* specification of the lock
MaxLockLoop == 2
\* longest identifier a get_prepareid callback returns
MaxIdLen == 201
\* calls of register_fdw_xact in one transaction
MaxRegCalls == 3
\* records replayed at a startup over any directory
MaxStartWal == 2
\* nest levels of a local transaction in the connection cache specification
MaxNestLevel == 2

\* --------------------------------------------------------- program values
InvalidTransactionId == 0
\* lengths of identifiers: the limit of fdwxact.h and the one the code tests
FDW_XACT_ID_MAX_LEN == 200
NAMEDATALEN == 64
FirstNormalTransactionId == 3
InvalidXLogRecPtr == 0
InvalidOid == 0
InvalidBackendId == -1

FDW_XACT_INITIAL == "Initial"
FDW_XACT_PREPARING == "Preparing"
FDW_XACT_PREPARED == "Prepared"
FDW_XACT_COMMITTING_PREPARED == "CommittingPrepared"
FDW_XACT_ABORTING_PREPARED == "AbortingPrepared"

FDW_XACT_NOT_WAITING == "NotWaiting"
FDW_XACT_WAITING == "Waiting"
FDW_XACT_WAITING_RETRY == "WaitingRetry"
FDW_XACT_WAIT_COMPLETE == "WaitComplete"

Slots == 1..MaxPrepared
\* the databases, foreign servers and users of the model
Dbs == {1}
Servers == {1, 2}
TheUser == 10
Users == {TheUser}
\* GetUserMapping(userid, serverid)->umid: one mapping per (server, user)
UserMappingId(serverid, userid) == 100 + serverid
\* a NULL FdwXact pointer
NULL == 0

VARIABLES
    slots,          \* the pool of FdwXactData structs, by slot
    fdw_xacts,      \* FdwXactCtl->fdw_xacts[0..numFdwXacts-1]: slots in use
    freeFdwXacts,   \* FdwXactCtl->freeFdwXacts: the free list, head first
    wal,            \* the WAL: records, record i has start LSN i, end LSN i+1
    walFlushed,     \* number of WAL records flushed to disk
    inRecovery,     \* RecoveryInProgress()
    ckpt,           \* the checkpointer: position, redo horizon, backends awaited
    lastRedo,       \* redo horizon of the last completed checkpoint (pg_control)
    recov,          \* the startup process: position, next record to replay
    lastErr,        \* outcome of the last table operation (table-level spec)
    files,          \* pg_fdw_xact: the spill files
    clog,           \* commit log: outcome recorded for each local xid
    running,        \* xids in the proc array (TransactionIdIsInProgress)
    nextXid,        \* ShmemVariableCache->nextXid
    unresolvedXmin, \* the value given to ProcArraySetFdwXactUnresolvedXmin
    be,             \* per backend: position, MyPgXact, MyProc, participants
    activeQ,        \* FdwXactRslvCtl->FdwXactActiveQueue, head first
    retryQ,         \* FdwXactRslvCtl->FdwXactRetryQueue, head first
    rs,             \* the resolver and the session running pg_resolve_fdw_xact
    fdwlog          \* FDW callbacks made so far (history)

tblVars == <<slots, fdw_xacts, freeFdwXacts>>
walVars == <<wal, walFlushed>>
xactVars == <<clog, running, nextXid>>
queueVars == <<activeQ, retryQ>>
recVars == <<inRecovery, ckpt, lastRedo, recov>>
vars == <<slots, fdw_xacts, freeFdwXacts, wal, walFlushed, recVars, lastErr,
          files, clog, running, nextXid, unresolvedXmin, be, activeQ, retryQ,
          rs, fdwlog>>

Backends == 1..NumBackends
Xids == FirstNormalTransactionId..(FirstNormalTransactionId + MaxXacts - 1)
\* MyDatabaseId of a backend, and the database of the resolver
MyDatabaseId(b) == 1
ResolverDb == 1

\* ------------------------------------------------------------- the table
\* A slot as FdwXactShmemInit leaves it: zeroed shared memory, status set.
InitSlot ==
    [dbid |-> InvalidOid, local_xid |-> InvalidTransactionId,
     serverid |-> InvalidOid, userid |-> InvalidOid, umid |-> InvalidOid,
     status |-> FDW_XACT_INITIAL,
     insert_start_lsn |-> InvalidXLogRecPtr, insert_end_lsn |-> InvalidXLogRecPtr,
     valid |-> FALSE, held_by |-> 0, ondisk |-> FALSE, inredo |-> FALSE,
     fdw_xact_id |-> <<>>]

\* The free list FdwXactShmemInit builds: each slot is pushed on the head.
RECURSIVE InitFreeList(_)
InitFreeList(n) == IF n = 0 THEN <<>> ELSE <<n>> \o InitFreeList(n - 1)

FdwXactShmemInit ==
    [slots |-> [s \in Slots |-> InitSlot],
     arr |-> <<>>,
     free |-> InitFreeList(MaxPrepared)]

\* The table as one value, and its assignment.
Tbl == [slots |-> slots, arr |-> fdw_xacts, free |-> freeFdwXacts]
SetTbl(T) ==
    /\ slots' = T.slots
    /\ fdw_xacts' = T.arr
    /\ freeFdwXacts' = T.free

numFdwXacts == Len(fdw_xacts)

\* A backend outside any transaction: no participants, not waiting.
InitBackend ==
    [pc |-> "idle", xid |-> InvalidTransactionId, part |-> <<>>, pidx |-> 0,
     fdwXactState |-> FDW_XACT_NOT_WAITING,
     fdwXactWaitXid |-> InvalidTransactionId,
     delayChkpt |-> FALSE, n_lefts |-> 0, cancelled |-> FALSE]

\* The processes that run FdwXactResolveForeignTransaction: the resolver
\* worker of the database, and a session calling pg_resolve_fdw_xact.
ResolverProcs == {"resolver", "admin"}
InitResolver ==
    [pc |-> "idle", caller |-> "none", waiter |-> 0, participants |-> <<>>,
     idx |-> 0, fdwxact |-> NULL, state |-> <<>>, is_commit |-> FALSE,
     ret |-> FALSE]

\* History of the FDW callbacks: keys whose prepare returned true, keys whose
\* resolve returned true, per local xid the isCommit values resolve was
\* called with, keys rolled back, and the calls of the commit callback in
\* order.
InitLog ==
    [prepared |-> {}, resolved |-> {}, resolvedAs |-> [x \in Xids |-> {}],
     rolledback |-> {}, committed |-> <<>>]

\* The checkpointer between checkpoints, and the startup process of a server
\* that started without recovery.
InitCkpt == [pc |-> "idle", redo |-> InvalidXLogRecPtr, waitFor |-> {}]
InitRecov == [pc |-> "up", pos |-> 0, crashes |-> 0]

\* The state after postmaster start, but for the WAL and what recovery sets.
InitShmem ==
    /\ slots = FdwXactShmemInit.slots
    /\ fdw_xacts = FdwXactShmemInit.arr
    /\ freeFdwXacts = FdwXactShmemInit.free
    /\ lastErr = [op |-> "none", key |-> <<>>, err |-> "none"]
    /\ files = {}
    /\ clog = [x \in Xids |-> "none"]
    /\ running = {}
    /\ unresolvedXmin = InvalidTransactionId
    /\ be = [b \in Backends |-> InitBackend]
    /\ activeQ = <<>>
    /\ retryQ = <<>>
    /\ rs = [p \in ResolverProcs |-> InitResolver]
    /\ fdwlog = InitLog
    /\ ckpt = InitCkpt
    /\ lastRedo = 1

\* The state after postmaster start of a new cluster: an empty WAL.
SetInit ==
    /\ InitShmem
    /\ wal = <<>>
    /\ walFlushed = 0
    /\ nextXid = FirstNormalTransactionId
    /\ recov = InitRecov

KeyOf(e) == <<e.dbid, e.local_xid, e.serverid, e.userid>>

\* Index in i..Len(q) of the first element of q equal to x, 0 if none.
RECURSIVE FirstIndex(_, _, _)
FirstIndex(q, x, i) ==
    IF i > Len(q) THEN 0
    ELSE IF q[i] = x THEN i
    ELSE FirstIndex(q, x, i + 1)

\* insert_fdw_xact's duplicate scan over the active array.
HasDuplicate(T, dbid, xid, serverid, userid) ==
    \E i \in 1..Len(T.arr) :
        KeyOf(T.slots[T.arr[i]]) = <<dbid, xid, serverid, userid>>

\* Mutant: the duplicate scan is skipped.
insert_fdw_xact_nodupcheck(T, dbid, xid, serverid, userid, umid, fdw_xact_id) ==
    IF T.free = <<>>
    THEN [err |-> "full", T |-> T, fxact |-> NULL]
    ELSE LET f == Head(T.free) IN
         [err |-> "none",
          fxact |-> f,
          T |-> [slots |-> [T.slots EXCEPT ![f] =
                              [@ EXCEPT !.held_by = InvalidBackendId,
                                        !.dbid = dbid, !.local_xid = xid,
                                        !.serverid = serverid, !.userid = userid,
                                        !.umid = umid,
                                        !.insert_start_lsn = InvalidXLogRecPtr,
                                        !.insert_end_lsn = InvalidXLogRecPtr,
                                        !.valid = FALSE, !.ondisk = FALSE,
                                        !.inredo = FALSE,
                                        !.fdw_xact_id = fdw_xact_id]],
                 arr |-> Append(T.arr, f),
                 free |-> Tail(T.free)]]

\* insert_fdw_xact: the result is the error raised ("none" when it returns),
\* the table afterwards and the slot returned.
insert_fdw_xact(T, dbid, xid, serverid, userid, umid, fdw_xact_id) ==
    IF HasDuplicate(T, dbid, xid, serverid, userid)
    THEN [err |-> "duplicate", T |-> T, fxact |-> NULL]
    ELSE IF T.free = <<>>
    THEN [err |-> "full", T |-> T, fxact |-> NULL]
    ELSE LET f == Head(T.free) IN
         [err |-> "none",
          fxact |-> f,
          T |-> [slots |-> [T.slots EXCEPT ![f] =
                              [@ EXCEPT !.held_by = InvalidBackendId,
                                        !.dbid = dbid, !.local_xid = xid,
                                        !.serverid = serverid, !.userid = userid,
                                        !.umid = umid,
                                        !.insert_start_lsn = InvalidXLogRecPtr,
                                        !.insert_end_lsn = InvalidXLogRecPtr,
                                        !.valid = FALSE, !.ondisk = FALSE,
                                        !.inredo = FALSE,
                                        !.fdw_xact_id = fdw_xact_id]],
                 arr |-> Append(T.arr, f),
                 free |-> Tail(T.free)]]

\* The XLOG_FDW_XACT_REMOVE record remove_fdw_xact fills from the entry.
RemoveRecord(e) ==
    [type |-> "REMOVE", dbid |-> e.dbid, xid |-> e.local_xid,
     serverid |-> e.serverid, userid |-> e.userid,
     umid |-> InvalidOid, fdw_xact_id |-> <<>>]

\* Mutant: the entry is pushed on the free list without the search of the
\* active array, so a slot that is not in use is freed again.
remove_fdw_xact_nosearch(T, fdw_xact) ==
    LET cnt == FirstIndex(T.arr, fdw_xact, 1)
        last == Len(T.arr)
    IN [err |-> "none",
        T |-> [slots |-> [T.slots EXCEPT ![fdw_xact] =
                            [@ EXCEPT !.status = FDW_XACT_INITIAL,
                                      !.held_by = InvalidBackendId]],
               arr |-> IF cnt = 0 THEN T.arr
                       ELSE SubSeq([T.arr EXCEPT ![cnt] = T.arr[last]], 1, last - 1),
               free |-> <<fdw_xact>> \o T.free],
        rec |-> <<RemoveRecord(T.slots[fdw_xact])>>]

\* remove_fdw_xact on the table: the error raised, the table afterwards and
\* the REMOVE record (written only outside recovery, see XLogRemove).
remove_fdw_xact(T, fdw_xact) ==
    LET cnt == FirstIndex(T.arr, fdw_xact, 1)
        last == Len(T.arr)
    IN IF cnt = 0
       THEN [err |-> "notfound", T |-> T, rec |-> <<>>]
       ELSE [err |-> "none",
             T |-> [slots |-> [T.slots EXCEPT ![fdw_xact] =
                                 [@ EXCEPT !.status = FDW_XACT_INITIAL,
                                           !.held_by = InvalidBackendId]],
                    arr |-> SubSeq([T.arr EXCEPT ![cnt] = T.arr[last]], 1, last - 1),
                    free |-> <<fdw_xact>> \o T.free],
             rec |-> <<RemoveRecord(T.slots[fdw_xact])>>]

\* The spill files are the file data FdwXactOnDiskData, named by the key.
FileKey(f) == <<f.dbid, f.xid, f.serverid, f.userid>>

\* RemoveFdwXactFile: unlink of the file of a key; a missing file is only a
\* warning.
RemoveFdwXactFile(fs, key) == {f \in fs : FileKey(f) # key}

\* The WAL part of remove_fdw_xact: XLogInsert and XLogFlush of the record
\* unless RecoveryInProgress().
XLogRemove(recs) ==
    IF inRecovery \/ recs = <<>>
    THEN UNCHANGED walVars
    ELSE /\ wal' = wal \o recs
         /\ walFlushed' = Len(wal) + Len(recs)

\* ------------------------------------------------ the table's handlers
\* Mutant: the locked section sets the owner and leaves the status as it is.
InsertEntryLocked_nostatus(T, backend, dbid, xid, serverid, userid, umid, fdw_xact_id) ==
    LET r == insert_fdw_xact(T, dbid, xid, serverid, userid, umid, fdw_xact_id) IN
    IF r.err # "none" THEN r
    ELSE [r EXCEPT !.T.slots[r.fxact].held_by = backend]

\* The locked section of FdwXactInsertFdwXactEntry: insert, then status and
\* owner.  An error raised by insert_fdw_xact leaves the section at once.
InsertEntryLocked(T, backend, dbid, xid, serverid, userid, umid, fdw_xact_id) ==
    LET r == insert_fdw_xact(T, dbid, xid, serverid, userid, umid, fdw_xact_id) IN
    IF r.err # "none" THEN r
    ELSE [r EXCEPT !.T.slots[r.fxact].status = FDW_XACT_PREPARING,
                   !.T.slots[r.fxact].held_by = backend]

\* Mutant: redo of an INSERT record adds nothing.
FdwXactRedoAdd_dropped(T, rec, start_lsn, end_lsn) ==
    [err |-> "none", T |-> T, fxact |-> NULL]

\* FdwXactRedoAdd: insert, then the fields of an entry added in redo.
FdwXactRedoAdd(T, rec, start_lsn, end_lsn) ==
    LET r == insert_fdw_xact(T, rec.dbid, rec.xid, rec.serverid, rec.userid,
                             rec.umid, rec.fdw_xact_id) IN
    IF r.err # "none" THEN r
    ELSE [r EXCEPT !.T.slots[r.fxact].status = FDW_XACT_PREPARING,
                   !.T.slots[r.fxact].insert_start_lsn = start_lsn,
                   !.T.slots[r.fxact].insert_end_lsn = end_lsn,
                   !.T.slots[r.fxact].inredo = TRUE,
                   !.T.slots[r.fxact].valid = FALSE,
                   !.T.slots[r.fxact].ondisk = (start_lsn = InvalidXLogRecPtr)]

\* get_fdw_xacts: the slots of the active array, in array order, that match;
\* an invalid (zero) argument matches everything.
RECURSIVE get_fdw_xacts_from(_, _, _, _, _, _)
get_fdw_xacts_from(T, i, dbid, xid, serverid, userid) ==
    IF i > Len(T.arr) THEN <<>>
    ELSE LET e == T.slots[T.arr[i]]
             matches == /\ (xid = InvalidTransactionId \/ xid = e.local_xid)
                        /\ (dbid = InvalidOid \/ e.dbid = dbid)
                        /\ (serverid = InvalidOid \/ serverid = e.serverid)
                        /\ (userid = InvalidOid \/ e.userid = userid)
         IN (IF matches THEN <<T.arr[i]>> ELSE <<>>)
            \o get_fdw_xacts_from(T, i + 1, dbid, xid, serverid, userid)

get_fdw_xacts(T, dbid, xid, serverid, userid) ==
    get_fdw_xacts_from(T, 1, dbid, xid, serverid, userid)

\* get_one_fdw_xact: the entry of a key, NULL when there is none.
get_one_fdw_xact(T, dbid, xid, serverid, userid) ==
    LET l == get_fdw_xacts(T, dbid, xid, serverid, userid) IN
    IF l = <<>> THEN NULL ELSE l[1]

\* generate_fdw_xact_identifier: "fx_<random>_<xid>_<serverid>_<userid>"; the
\* random part is left out.
GenId(xid, serverid, userid) == <<"fx", xid, serverid, userid>>

\* ------------------------------------------------------ the commit path
TransactionIdPrecedes(id1, id2) == id1 < id2
TransactionIdDidCommit(x) == clog[x] = "committed"
TransactionIdDidAbort(x) == clog[x] = "aborted"
TransactionIdIsInProgress(x) == x \in running
\* No local transaction is PREPAREd in the model.
TwoPhaseExists(x) == FALSE

CurPart(b) == be[b].part[be[b].pidx]

\* The XLOG_FDW_XACT_INSERT record FdwXactInsertFdwXactEntry builds.
InsertRecord(dbid, xid, serverid, userid, umid, fdw_xact_id) ==
    [type |-> "INSERT", dbid |-> dbid, xid |-> xid, serverid |-> serverid,
     userid |-> userid, umid |-> umid, fdw_xact_id |-> fdw_xact_id]

\* Mutant: the flush of the record is left out.
XLogFlush_skipped(nrecords) == walFlushed

\* XLogFlush up to the end of record number nrecords: the flushed count after.
XLogFlush(nrecords) == IF nrecords > walFlushed THEN nrecords ELSE walFlushed

\* A backend starts a local transaction that writes to the foreign servers
\* 1..n, all capable of two-phase commit, and reaches pre-commit with atomic
\* commit required: register_fdw_xact for each server, then PreCommit_FdwXacts
\* up to the call of FdwXactPrepareForeignTransactions.
Begin(b, n) ==
    /\ ~inRecovery
    /\ be[b].pc = "idle"
    /\ nextXid \in Xids
    /\ be' = [be EXCEPT ![b] =
                [@ EXCEPT !.pc = "insert", !.xid = nextXid, !.pidx = 1,
                          !.cancelled = FALSE,
                          !.part = [i \in 1..n |->
                                      [serverid |-> i, userid |-> TheUser,
                                       fdw_xact |-> NULL, modified |-> TRUE]]]]
    /\ running' = running \cup {nextXid}
    /\ nextXid' = nextXid + 1
    /\ UNCHANGED <<tblVars, walVars, recVars, lastErr, files, clog,
                   unresolvedXmin, queueVars, rs, fdwlog>>

\* FdwXactInsertFdwXactEntry, first locked section: the entry is inserted with
\* status Preparing and held by the backend; an error of insert_fdw_xact
\* aborts the transaction.
InsertEntry(b) ==
    /\ be[b].pc = "insert"
    /\ LET p == CurPart(b)
           r == InsertEntryLocked(Tbl, b, MyDatabaseId(b), be[b].xid,
                                  p.serverid, p.userid,
                                  UserMappingId(p.serverid, p.userid),
                                  GenId(be[b].xid, p.serverid, p.userid))
       IN IF r.err # "none"
          THEN /\ be' = [be EXCEPT ![b].pc = "abort"]
               /\ UNCHANGED tblVars
          ELSE /\ SetTbl(r.T)
               /\ be' = [be EXCEPT ![b].pc = "xlog",
                                   ![b].part[be[b].pidx].fdw_xact = r.fxact]
    /\ UNCHANGED <<walVars, recVars, lastErr, files, xactVars,
                   unresolvedXmin, queueVars, rs, fdwlog>>

\* FdwXactInsertFdwXactEntry without the delayChkpt window.
XLogInsertEntry_nodelay(b) ==
    /\ be[b].pc = "xlog"
    /\ LET p == CurPart(b)
           fxact == p.fdw_xact
           lsn == Len(wal) + 1
       IN /\ wal' = Append(wal, InsertRecord(MyDatabaseId(b), be[b].xid,
                                            p.serverid, p.userid,
                                            UserMappingId(p.serverid, p.userid),
                                            GenId(be[b].xid, p.serverid, p.userid)))
          /\ walFlushed' = XLogFlush(lsn)
          /\ slots' = [slots EXCEPT ![fxact].insert_end_lsn = lsn + 1,
                                    ![fxact].insert_start_lsn = lsn]
    /\ be' = [be EXCEPT ![b].pc = "valid"]
    /\ UNCHANGED <<fdw_xacts, freeFdwXacts, recVars, lastErr, files, xactVars,
                   unresolvedXmin, queueVars, rs, fdwlog>>

\* FdwXactInsertFdwXactEntry, the critical section: delayChkpt is set, the
\* INSERT record is inserted and flushed, and both LSNs are stored in the
\* entry (through the pointer, without the lock).
XLogInsertEntry(b) ==
    /\ be[b].pc = "xlog"
    /\ LET p == CurPart(b)
           fxact == p.fdw_xact
           lsn == Len(wal) + 1
       IN /\ wal' = Append(wal, InsertRecord(MyDatabaseId(b), be[b].xid,
                                            p.serverid, p.userid,
                                            UserMappingId(p.serverid, p.userid),
                                            GenId(be[b].xid, p.serverid, p.userid)))
          /\ walFlushed' = XLogFlush(lsn)
          /\ slots' = [slots EXCEPT ![fxact].insert_end_lsn = lsn + 1,
                                    ![fxact].insert_start_lsn = lsn]
    /\ be' = [be EXCEPT ![b].pc = "valid", ![b].delayChkpt = TRUE]
    /\ UNCHANGED <<fdw_xacts, freeFdwXacts, recVars, lastErr, files, xactVars,
                   unresolvedXmin, queueVars, rs, fdwlog>>

\* FdwXactInsertFdwXactEntry, second locked section: valid is set, then
\* delayChkpt is cleared.
SetValid(b) ==
    /\ be[b].pc = "valid"
    /\ slots' = [slots EXCEPT ![CurPart(b).fdw_xact].valid = TRUE]
    /\ be' = [be EXCEPT ![b].pc = "prepare", ![b].delayChkpt = FALSE]
    /\ UNCHANGED <<fdw_xacts, freeFdwXacts, walVars, recVars, lastErr, files,
                   xactVars, unresolvedXmin, queueVars, rs, fdwlog>>

\* FdwXactPrepareForeignTransactions: the FDW's prepare callback; a false
\* return raises the error that aborts the transaction.
CallPrepare(b, ret) ==
    /\ be[b].pc = "prepare"
    /\ LET p == CurPart(b) IN
       IF ret
       THEN /\ be' = [be EXCEPT ![b].pc = "mark"]
            /\ fdwlog' = [fdwlog EXCEPT !.prepared =
                            @ \cup {<<MyDatabaseId(b), be[b].xid, p.serverid, p.userid>>}]
       ELSE /\ be' = [be EXCEPT ![b].pc = "abort"]
            /\ UNCHANGED fdwlog
    /\ UNCHANGED <<tblVars, walVars, recVars, lastErr, files, xactVars,
                   unresolvedXmin, queueVars, rs>>

\* FdwXactPrepareForeignTransactions: the status update after a successful
\* prepare, then the next participant or the local commit.
MarkPrepared(b) ==
    /\ be[b].pc = "mark"
    /\ slots' = [slots EXCEPT ![CurPart(b).fdw_xact].status = FDW_XACT_PREPARED]
    /\ be' = IF be[b].pidx < Len(be[b].part)
             THEN [be EXCEPT ![b].pc = "insert", ![b].pidx = @ + 1]
             ELSE [be EXCEPT ![b].pc = "commit"]
    /\ UNCHANGED <<fdw_xacts, freeFdwXacts, walVars, recVars, lastErr, files,
                   xactVars, unresolvedXmin, queueVars, rs, fdwlog>>

\* The local commit: the commit record is flushed and the outcome recorded.
LocalCommit(b) ==
    /\ be[b].pc = "commit"
    /\ clog' = [clog EXCEPT ![be[b].xid] = "committed"]
    /\ walFlushed' = Len(wal)
    /\ be' = [be EXCEPT ![b].pc = "waitenter"]
    /\ UNCHANGED <<tblVars, wal, recVars, lastErr, files, running, nextXid,
                   unresolvedXmin, queueVars, rs, fdwlog>>

\* FdwXactWaitToBeResolved(xid, true) with a non-empty participant list: the
\* status loop walks the list of FdwXactParticipant structs as if they were
\* FdwXact entries, so no entry of the table is changed by it; then the
\* backend becomes Waiting and is appended to the active queue.
WaitEnter(b) ==
    /\ be[b].pc = "waitenter"
    /\ be' = [be EXCEPT ![b].pc = "waiting",
                        ![b].fdwXactState = FDW_XACT_WAITING,
                        ![b].fdwXactWaitXid = be[b].xid]
    /\ activeQ' = Append(activeQ, b)
    /\ UNCHANGED <<tblVars, walVars, recVars, lastErr, files, xactVars,
                   unresolvedXmin, retryQ, rs, fdwlog>>

\* The wait loop sees WaitComplete: the backend leaves it and resets its state.
WaitReturn(b) ==
    /\ be[b].pc = "waiting"
    /\ be[b].fdwXactState = FDW_XACT_WAIT_COMPLETE
    /\ be' = [be EXCEPT ![b].pc = "forget",
                        ![b].fdwXactState = FDW_XACT_NOT_WAITING]
    /\ UNCHANGED <<tblVars, walVars, recVars, lastErr, files, xactVars,
                   unresolvedXmin, queueVars, rs, fdwlog>>

Without(q, x) == SelectSeq(q, LAMBDA y : y # x)

\* Mutant: the cancelled backend stays linked in the queue.
SHMQueueDelete_skipped(q, b) == q

\* SHMQueueDelete of a backend's links, seen from one queue: a no-op when the
\* backend is not linked in it.
SHMQueueDelete(q, b) == Without(q, b)

\* The wait loop sees a die request, a query cancel or postmaster death:
\* FdwXactCancelWait unlinks the backend and resets its state.
WaitCancel(b) ==
    /\ be[b].pc = "waiting"
    /\ be[b].fdwXactState # FDW_XACT_WAIT_COMPLETE
    /\ activeQ' = SHMQueueDelete(activeQ, b)
    /\ retryQ' = SHMQueueDelete(retryQ, b)
    /\ be' = [be EXCEPT ![b].pc = "forget",
                        ![b].fdwXactState = FDW_XACT_NOT_WAITING,
                        ![b].cancelled = TRUE]
    /\ UNCHANGED <<tblVars, walVars, recVars, lastErr, files, xactVars,
                   unresolvedXmin, rs, fdwlog>>

\* Mutant: every participant with an entry, whoever holds it.
Lefts_any(b) ==
    {i \in 1..Len(be[b].part) : be[b].part[i].fdw_xact # NULL}

\* The participants ForgetAllFdwXactParticipants clears: those with an entry
\* that is (still) held by the backend.
Lefts(b) ==
    {i \in 1..Len(be[b].part) :
        /\ be[b].part[i].fdw_xact # NULL
        /\ slots[be[b].part[i].fdw_xact].held_by = b}

\* The slots after ForgetAllFdwXactParticipants' loop.
ForgetSlots(b) ==
    [s \in Slots |->
        IF \E i \in Lefts(b) : be[b].part[i].fdw_xact = s
        THEN [slots[s] EXCEPT !.held_by = InvalidBackendId]
        ELSE slots[s]]

\* ForgetAllFdwXactParticipants, the locked section.
ForgetAllFdwXactParticipants(b) ==
    /\ be[b].pc = "forget"
    /\ slots' = ForgetSlots(b)
    /\ be' = [be EXCEPT ![b].pc = IF Lefts(b) # {} THEN "xmin" ELSE "end",
                        ![b].n_lefts = Cardinality(Lefts(b)),
                        ![b].part = <<>>, ![b].pidx = 0]
    /\ UNCHANGED <<fdw_xacts, freeFdwXacts, walVars, recVars, lastErr, files,
                   xactVars, unresolvedXmin, queueVars, rs, fdwlog>>

\* FdwXactComputeRequiredXmin's loop over the first i entries of the array.
RECURSIVE AggXmin(_, _)
AggXmin(T, i) ==
    IF i = 0 THEN InvalidTransactionId
    ELSE LET agg == AggXmin(T, i - 1)
             e == T.slots[T.arr[i]]
         IN IF ~e.valid THEN agg
            ELSE IF agg = InvalidTransactionId \/ TransactionIdPrecedes(e.local_xid, agg)
                 THEN e.local_xid
                 ELSE agg

\* FdwXactComputeRequiredXmin, called when ForgetAllFdwXactParticipants left
\* an entry.
FdwXactComputeRequiredXmin(b) ==
    /\ be[b].pc = "xmin"
    /\ unresolvedXmin' = AggXmin(Tbl, Len(fdw_xacts))
    /\ be' = [be EXCEPT ![b].pc = "end", ![b].n_lefts = 0]
    /\ UNCHANGED <<tblVars, walVars, recVars, lastErr, files, xactVars,
                   queueVars, rs, fdwlog>>

\* The end of the transaction: the xid leaves the proc array.
EndXact(b) ==
    /\ be[b].pc = "end"
    /\ running' = running \ {be[b].xid}
    /\ be' = [be EXCEPT ![b].pc = "idle", ![b].xid = InvalidTransactionId]
    /\ UNCHANGED <<tblVars, walVars, recVars, lastErr, files, clog, nextXid,
                   unresolvedXmin, queueVars, rs, fdwlog>>

\* The transaction aborts after an error in pre-commit: the abort is recorded
\* and the xid leaves the proc array.
AbortXact(b) ==
    /\ be[b].pc = "abort"
    /\ clog' = [clog EXCEPT ![be[b].xid] = "aborted"]
    /\ running' = running \ {be[b].xid}
    /\ be' = [be EXCEPT ![b].pc = "rollback", ![b].delayChkpt = FALSE]
    /\ UNCHANGED <<tblVars, walVars, recVars, lastErr, files, nextXid,
                   unresolvedXmin, queueVars, rs, fdwlog>>

\* Mutant: the rollback callback is called for every participant.
AtEOXact_FdwXacts_abort_all(b) ==
    /\ be[b].pc = "rollback"
    /\ fdwlog' = [fdwlog EXCEPT !.rolledback = @ \cup
            {<<MyDatabaseId(b), be[b].xid, be[b].part[i].serverid, be[b].part[i].userid>> :
                i \in 1..Len(be[b].part)}]
    /\ be' = [be EXCEPT ![b].pc = "forget"]
    /\ UNCHANGED <<tblVars, walVars, recVars, lastErr, files, xactVars,
                   unresolvedXmin, queueVars, rs>>

\* AtEOXact_FdwXacts(false): the rollback callback for every participant
\* except those whose entry is Prepared.
AtEOXact_FdwXacts_abort(b) ==
    /\ be[b].pc = "rollback"
    /\ fdwlog' = [fdwlog EXCEPT !.rolledback = @ \cup
            {<<MyDatabaseId(b), be[b].xid, be[b].part[i].serverid, be[b].part[i].userid>> :
                i \in {j \in 1..Len(be[b].part) :
                         ~(/\ be[b].part[j].fdw_xact # NULL
                           /\ slots[be[b].part[j].fdw_xact].status = FDW_XACT_PREPARED)}}]
    /\ be' = [be EXCEPT ![b].pc = "forget"]
    /\ UNCHANGED <<tblVars, walVars, recVars, lastErr, files, xactVars,
                   unresolvedXmin, queueVars, rs>>

\* ---------------------------------------------------------- resolution
\* The elevel each caller passes to FdwXactResolveForeignTransaction.
Elevel(caller) == IF caller = "admin" THEN "LOG" ELSE "ERROR"

InQueue(q, b) == \E i \in 1..Len(q) : q[i] = b

\* The first waiter FdwXactResolveDistributedTransaction's loop finds: the
\* head of the queue, NULL for an empty queue.  The loop does not advance, so
\* a head of another database makes it spin ("spin").
FirstWaiter(q, dbid) ==
    IF q = <<>> THEN [found |-> FALSE, spin |-> FALSE, waiter |-> NULL]
    ELSE IF MyDatabaseId(Head(q)) = dbid
    THEN [found |-> TRUE, spin |-> FALSE, waiter |-> Head(q)]
    ELSE [found |-> FALSE, spin |-> TRUE, waiter |-> NULL]

\* Mutant: the resolver finishes after the first entry of its list.
Advance_first(r) ==
    IF r.caller = "admin" THEN InitResolver
    ELSE IF r.caller = "dangling" THEN InitResolver
    ELSE [r EXCEPT !.pc = "finish", !.fdwxact = NULL]

\* What a resolution does after an entry: the next entry of the list, the
\* release of the waiter, or the return.
Advance(r) ==
    IF r.caller = "admin" THEN InitResolver
    ELSE IF r.idx < Len(r.participants)
    THEN [r EXCEPT !.idx = @ + 1, !.fdwxact = r.participants[r.idx + 1],
                   !.pc = "decide1"]
    ELSE IF r.caller = "dangling" THEN InitResolver
    ELSE [r EXCEPT !.pc = "finish", !.fdwxact = NULL]

\* Mutant: the ERROR is not caught, the waiter stays where it is.
RaiseError_nocatch(p) ==
    /\ rs' = [rs EXCEPT ![p] = InitResolver]
    /\ UNCHANGED <<activeQ, retryQ, be>>

\* Mutant: the waiter is moved to the retry queue and keeps its state.
RaiseError_nostate(p) ==
    /\ rs' = [rs EXCEPT ![p] = InitResolver]
    /\ LET w == rs[p].waiter IN
       IF /\ rs[p].caller \in {"active", "retry"}
          /\ be[w].fdwXactState = FDW_XACT_WAITING
       THEN /\ activeQ' = Without(activeQ, w)
            /\ retryQ' = Append(Without(retryQ, w), w)
            /\ UNCHANGED be
       ELSE UNCHANGED <<activeQ, retryQ, be>>

\* An ERROR raised inside a resolution.  FdwXactResolveDistributedTransaction
\* catches it: a waiter whose state is Waiting is moved to the tail of the
\* retry queue with state WaitingRetry; then the resolution is abandoned.
RaiseError(p) ==
    /\ rs' = [rs EXCEPT ![p] = InitResolver]
    /\ LET w == rs[p].waiter IN
       IF /\ rs[p].caller \in {"active", "retry"}
          /\ be[w].fdwXactState = FDW_XACT_WAITING
       THEN /\ activeQ' = Without(activeQ, w)
            /\ retryQ' = Append(Without(retryQ, w), w)
            /\ be' = [be EXCEPT ![w].fdwXactState = FDW_XACT_WAITING_RETRY]
       ELSE UNCHANGED <<activeQ, retryQ, be>>

\* FdwXactResolveDistributedTransaction(dbid, is_active), first locked
\* section: the waiter and the entries of its waitXid.
StartDistributed(p, is_active) ==
    /\ p = "resolver"
    /\ ~inRecovery
    /\ rs[p].pc = "idle"
    /\ LET fw == FirstWaiter(IF is_active THEN activeQ ELSE retryQ, ResolverDb)
       IN /\ fw.found
          /\ LET l == get_fdw_xacts(Tbl, ResolverDb, be[fw.waiter].fdwXactWaitXid,
                                    InvalidOid, InvalidOid)
             IN rs' = [rs EXCEPT ![p] =
                        [InitResolver EXCEPT
                            !.caller = IF is_active THEN "active" ELSE "retry",
                            !.waiter = fw.waiter,
                            !.participants = l,
                            !.idx = IF l = <<>> THEN 0 ELSE 1,
                            !.fdwxact = IF l = <<>> THEN NULL ELSE l[1],
                            !.pc = IF l = <<>> THEN "finish" ELSE "decide1"]]
    /\ UNCHANGED <<tblVars, walVars, recVars, lastErr, files, xactVars,
                   unresolvedXmin, queueVars, be, fdwlog>>

\* Mutant: the scan takes the entries that are held by a backend.
DanglingFrom_held(T, i, dbid) ==
    SelectSeq(T.arr, LAMBDA f : /\ T.slots[f].dbid = dbid
                                /\ T.slots[f].held_by # InvalidBackendId)

\* The list FdwXactResolveAllDanglingTransactions collects from the first i
\* entries of the array.
RECURSIVE DanglingFrom(_, _, _)
DanglingFrom(T, i, dbid) ==
    IF i > Len(T.arr) THEN <<>>
    ELSE LET e == T.slots[T.arr[i]] IN
         (IF /\ e.dbid = dbid
             /\ e.held_by = InvalidBackendId
             /\ ~TwoPhaseExists(e.local_xid)
          THEN <<T.arr[i]>> ELSE <<>>) \o DanglingFrom(T, i + 1, dbid)

\* FdwXactResolveAllDanglingTransactions(dbid), the locked scan.
StartDangling(p) ==
    /\ p = "resolver"
    /\ ~inRecovery
    /\ rs[p].pc = "idle"
    /\ LET l == DanglingFrom(Tbl, 1, ResolverDb) IN
       /\ l # <<>>
       /\ rs' = [rs EXCEPT ![p] =
                   [InitResolver EXCEPT !.caller = "dangling", !.participants = l,
                                        !.idx = 1, !.fdwxact = l[1],
                                        !.pc = "decide1"]]
    /\ UNCHANGED <<tblVars, walVars, recVars, lastErr, files, xactVars,
                   unresolvedXmin, queueVars, be, fdwlog>>

\* pg_resolve_fdw_xact(xid, serverid, userid) up to the call of
\* FdwXactResolveForeignTransaction; it returns false when no entry matches.
pg_resolve_fdw_xact(p, xid, serverid, userid) ==
    /\ p = "admin"
    /\ ~inRecovery
    /\ rs[p].pc = "idle"
    /\ LET fdwxact == get_one_fdw_xact(Tbl, ResolverDb, xid, serverid, userid) IN
       /\ fdwxact # NULL
       /\ rs' = [rs EXCEPT ![p] =
                   [InitResolver EXCEPT !.caller = "admin",
                                        !.participants = <<fdwxact>>,
                                        !.idx = 1, !.fdwxact = fdwxact,
                                        !.state = <<ResolverDb, xid, serverid, userid>>,
                                        !.pc = "decide1"]]
    /\ UNCHANGED <<tblVars, walVars, recVars, lastErr, files, xactVars,
                   unresolvedXmin, queueVars, be, fdwlog>>

\* FdwXactResolveForeignTransaction, the decision, first reads: the entry's
\* status, then TransactionIdDidCommit.  The resolver's callers fill the
\* state from the entry just before.
Decide1(p) ==
    /\ rs[p].pc = "decide1"
    /\ LET f == rs[p].fdwxact
           e == slots[f]
           st == IF rs[p].caller = "admin" THEN rs[p].state ELSE KeyOf(e)
       IN IF e.status = FDW_XACT_COMMITTING_PREPARED
          THEN /\ rs' = [rs EXCEPT ![p].pc = "call", ![p].is_commit = TRUE,
                                   ![p].state = st]
               /\ UNCHANGED slots
          ELSE IF e.status = FDW_XACT_ABORTING_PREPARED
          THEN /\ rs' = [rs EXCEPT ![p].pc = "call", ![p].is_commit = FALSE,
                                   ![p].state = st]
               /\ UNCHANGED slots
          ELSE IF TransactionIdDidCommit(e.local_xid)
          THEN /\ rs' = [rs EXCEPT ![p].pc = "call", ![p].is_commit = TRUE,
                                   ![p].state = st]
               /\ slots' = [slots EXCEPT ![f].status = FDW_XACT_COMMITTING_PREPARED]
          ELSE /\ rs' = [rs EXCEPT ![p].pc = "decide2", ![p].state = st]
               /\ UNCHANGED slots
    /\ UNCHANGED <<fdw_xacts, freeFdwXacts, walVars, recVars, lastErr, files,
                   xactVars, unresolvedXmin, queueVars, be, fdwlog>>

\* The decision, later reads: TransactionIdDidAbort, then
\* TransactionIdIsInProgress; an in-progress transaction is an ERROR.
Decide2(p) ==
    /\ rs[p].pc = "decide2"
    /\ LET f == rs[p].fdwxact
           e == slots[f]
       IN IF TransactionIdDidAbort(e.local_xid)
          THEN /\ rs' = [rs EXCEPT ![p].pc = "call", ![p].is_commit = FALSE]
               /\ slots' = [slots EXCEPT ![f].status = FDW_XACT_ABORTING_PREPARED]
               /\ UNCHANGED <<queueVars, be>>
          ELSE IF ~TransactionIdIsInProgress(e.local_xid)
          THEN /\ rs' = [rs EXCEPT ![p].pc = "call", ![p].is_commit = FALSE]
               /\ UNCHANGED <<slots, queueVars, be>>
          ELSE /\ RaiseError(p)
               /\ UNCHANGED slots
    /\ UNCHANGED <<fdw_xacts, freeFdwXacts, walVars, recVars, lastErr, files,
                   xactVars, unresolvedXmin, fdwlog>>

\* The FDW's resolve callback and the report of a false return at the
\* caller's elevel: ERROR leaves the function, LOG goes on.
CallResolve(p, ret) ==
    /\ rs[p].pc = "call"
    /\ LET x == rs[p].state[2] IN
       fdwlog' = [fdwlog EXCEPT
                    !.resolvedAs[x] = @ \cup {rs[p].is_commit},
                    !.resolved = IF ret THEN @ \cup {rs[p].state} ELSE @]
    /\ IF ~ret /\ Elevel(rs[p].caller) = "ERROR"
       THEN RaiseError(p)
       ELSE /\ rs' = [rs EXCEPT ![p].pc = "remove", ![p].ret = ret]
            /\ UNCHANGED <<queueVars, be>>
    /\ UNCHANGED <<tblVars, walVars, recVars, lastErr, files, xactVars,
                   unresolvedXmin>>

\* FdwXactResolveForeignTransaction, the locked section: the file of an
\* on-disk entry is unlinked, then remove_fdw_xact (which writes the REMOVE
\* record); its error for an entry that is not in the array leaves the
\* section.
RemoveResolved(p) ==
    /\ rs[p].pc = "remove"
    /\ LET f == rs[p].fdwxact
           e == slots[f]
           r == remove_fdw_xact(Tbl, f)
       IN /\ files' = IF e.ondisk THEN RemoveFdwXactFile(files, KeyOf(e)) ELSE files
          /\ IF r.err # "none"
             THEN /\ RaiseError(p)
                  /\ UNCHANGED <<tblVars, walVars>>
             ELSE /\ SetTbl(r.T)
                  /\ XLogRemove(r.rec)
                  /\ rs' = [rs EXCEPT ![p] = Advance(rs[p])]
                  /\ UNCHANGED <<queueVars, be>>
    /\ UNCHANGED <<recVars, lastErr, xactVars, unresolvedXmin, fdwlog>>

\* FdwXactResolveDistributedTransaction, last locked section: a waiter that
\* is still linked in a queue is unlinked and set to WaitComplete.
FinishDistributed(p) ==
    /\ rs[p].pc = "finish"
    /\ LET w == rs[p].waiter IN
       IF InQueue(activeQ, w) \/ InQueue(retryQ, w)
       THEN /\ activeQ' = Without(activeQ, w)
            /\ retryQ' = Without(retryQ, w)
            /\ be' = [be EXCEPT ![w].fdwXactState = FDW_XACT_WAIT_COMPLETE]
       ELSE UNCHANGED <<queueVars, be>>
    /\ rs' = [rs EXCEPT ![p] = InitResolver]
    /\ UNCHANGED <<tblVars, walVars, recVars, lastErr, files, xactVars,
                   unresolvedXmin, fdwlog>>

\* --------------------------------------------------- the concurrent system
Init == SetInit /\ inRecovery = FALSE

Next ==
    \/ \E b \in Backends, n \in 1..MaxPrepared : Begin(b, n)
    \/ \E b \in Backends : InsertEntry(b)
    \/ \E b \in Backends : XLogInsertEntry(b)
    \/ \E b \in Backends : SetValid(b)
    \/ \E b \in Backends, ret \in BOOLEAN : CallPrepare(b, ret)
    \/ \E b \in Backends : MarkPrepared(b)
    \/ \E b \in Backends : LocalCommit(b)
    \/ \E b \in Backends : WaitEnter(b)
    \/ \E b \in Backends : WaitReturn(b)
    \/ \E b \in Backends : WaitCancel(b)
    \/ \E b \in Backends : ForgetAllFdwXactParticipants(b)
    \/ \E b \in Backends : FdwXactComputeRequiredXmin(b)
    \/ \E b \in Backends : EndXact(b)
    \/ \E b \in Backends : AbortXact(b)
    \/ \E b \in Backends : AtEOXact_FdwXacts_abort(b)
    \/ \E is_active \in BOOLEAN : StartDistributed("resolver", is_active)
    \/ StartDangling("resolver")
    \/ \E p \in ResolverProcs : Decide1(p)
    \/ \E p \in ResolverProcs : Decide2(p)
    \/ \E p \in ResolverProcs, ret \in BOOLEAN : CallResolve(p, ret)
    \/ \E p \in ResolverProcs : RemoveResolved(p)
    \/ \E p \in ResolverProcs : FinishDistributed(p)

Spec == Init /\ [][Next]_vars

\* ------------------------------------- the system with manual resolution
\* The same system with pg_resolve_fdw_xact called from another session, for
\* at most MaxAdminXacts local transactions.
BeginAdmin(b, n) ==
    /\ nextXid < FirstNormalTransactionId + MaxAdminXacts
    /\ Begin(b, n)

NextAdmin ==
    \/ \E b \in Backends, n \in 1..MaxPrepared : BeginAdmin(b, n)
    \/ \E b \in Backends : InsertEntry(b)
    \/ \E b \in Backends : XLogInsertEntry(b)
    \/ \E b \in Backends : SetValid(b)
    \/ \E b \in Backends, ret \in BOOLEAN : CallPrepare(b, ret)
    \/ \E b \in Backends : MarkPrepared(b)
    \/ \E b \in Backends : LocalCommit(b)
    \/ \E b \in Backends : WaitEnter(b)
    \/ \E b \in Backends : WaitReturn(b)
    \/ \E b \in Backends : WaitCancel(b)
    \/ \E b \in Backends : ForgetAllFdwXactParticipants(b)
    \/ \E b \in Backends : FdwXactComputeRequiredXmin(b)
    \/ \E b \in Backends : EndXact(b)
    \/ \E b \in Backends : AbortXact(b)
    \/ \E b \in Backends : AtEOXact_FdwXacts_abort(b)
    \/ \E is_active \in BOOLEAN : StartDistributed("resolver", is_active)
    \/ StartDangling("resolver")
    \/ \E x \in Xids, s \in Servers : pg_resolve_fdw_xact("admin", x, s, TheUser)
    \/ \E p \in ResolverProcs : Decide1(p)
    \/ \E p \in ResolverProcs : Decide2(p)
    \/ \E p \in ResolverProcs, ret \in BOOLEAN : CallResolve(p, ret)
    \/ \E p \in ResolverProcs : RemoveResolved(p)
    \/ \E p \in ResolverProcs : FinishDistributed(p)

SpecAdmin == Init /\ [][NextAdmin]_vars

\* ------------------------------------------------- pre-commit of a backend
\* The settings of distributed_atomic_commit.
DISTRIBUTED_ATOMIC_COMMIT_DISABLED == "disabled"
DISTRIBUTED_ATOMIC_COMMIT_PREFER == "prefer"
DISTRIBUTED_ATOMIC_COMMIT_REQUIRED == "required"
Policies == {DISTRIBUTED_ATOMIC_COMMIT_DISABLED, DISTRIBUTED_ATOMIC_COMMIT_PREFER,
             DISTRIBUTED_ATOMIC_COMMIT_REQUIRED}

\* The participant lists register_fdw_xact can build in one transaction: each
\* server at most once, in the order of first use, each modified or not.
RegLists ==
    {<<>>}
      \cup {<<[serverid |-> s, modified |-> m]>> : s \in Servers, m \in BOOLEAN}
      \cup {q \in {<<[serverid |-> s1, modified |-> m1],
                      [serverid |-> s2, modified |-> m2]>> :
                        s1 \in Servers, s2 \in Servers, m1 \in BOOLEAN, m2 \in BOOLEAN} :
                q[1].serverid # q[2].serverid}

\* IsAtomicCommitRequested(): max_prepared_foreign_xacts (MaxPrepared) and
\* max_foreign_xact_resolvers are positive and the policy is not disabled.
IsAtomicCommitRequested(b) ==
    /\ MaxPrepared > 0
    /\ be[b].resolvers > 0
    /\ be[b].policy # DISTRIBUTED_ATOMIC_COMMIT_DISABLED

\* A local transaction runs up to its commit: register_fdw_xact for every
\* server of the list regs (twophase_commit_enabled starts true); wrote tells
\* whether it wrote a non-temporary relation (XACT_FLAGS_WROTENONTEMPREL) and
\* noapi whether it used a server whose FDW has no IsTwoPhaseCommitEnabled
\* (XACT_FLAGS_FDWNOPREPARE set by register_fdw_xact).  The backend also
\* keeps what was registered and what each probe returned (history).
register_fdw_xact(b, regs, policy, resolvers, wrote, noapi) ==
    /\ ~inRecovery
    /\ be[b].pc = "idle"
    /\ nextXid < FirstNormalTransactionId + MaxCommitXacts
    /\ be' = [be EXCEPT ![b] =
                [pc |-> "precommit", xid |-> nextXid, pidx |-> 0,
                 part |-> [i \in 1..Len(regs) |->
                             [serverid |-> regs[i].serverid, userid |-> TheUser,
                              fdw_xact |-> NULL, modified |-> regs[i].modified,
                              twophase_commit_enabled |-> TRUE]],
                 fdwXactState |-> FDW_XACT_NOT_WAITING,
                 fdwXactWaitXid |-> InvalidTransactionId,
                 delayChkpt |-> FALSE, n_lefts |-> 0, cancelled |-> FALSE,
                 policy |-> policy, resolvers |-> resolvers, wrote |-> wrote,
                 noprepare |-> noapi, need |-> FALSE, freed |-> FALSE,
                 err |-> "none", regs |-> regs,
                 probed |-> [s \in Servers |-> "none"]]]
    /\ running' = running \cup {nextXid}
    /\ nextXid' = nextXid + 1
    /\ UNCHANGED <<tblVars, walVars, recVars, lastErr, files, clog,
                   unresolvedXmin, queueVars, rs, fdwlog>>

\* Mutant: a modified participant whose probe returns false does not set
\* XACT_FLAGS_FDWNOPREPARE.
FdwXactAtomicCommitRequired_noflag(b, probe) ==
    IF ~IsAtomicCommitRequested(b)
    THEN [need |-> FALSE, part |-> be[b].part, noprepare |-> be[b].noprepare,
          probed |-> be[b].probed]
    ELSE LET parts == be[b].part
             nserverswritten ==
                 Cardinality({i \in 1..Len(parts) : parts[i].modified})
                   + (IF be[b].wrote THEN 1 ELSE 0)
         IN [need |-> nserverswritten > 1,
             part |-> parts,
             probed |-> [s \in Servers |->
                           IF \E i \in 1..Len(parts) : parts[i].serverid = s
                           THEN (IF probe[s] THEN "true" ELSE "false")
                           ELSE "none"],
             noprepare |-> be[b].noprepare]

\* FdwXactAtomicCommitRequired: the probe of every participant, the flag
\* XACT_FLAGS_FDWNOPREPARE and the count of servers written; probe gives what
\* is_twophase_commit_enabled returns for each server.
FdwXactAtomicCommitRequired(b, probe) ==
    IF ~IsAtomicCommitRequested(b)
    THEN [need |-> FALSE, part |-> be[b].part, noprepare |-> be[b].noprepare,
          probed |-> be[b].probed]
    ELSE LET parts == be[b].part
             nserverswritten ==
                 Cardinality({i \in 1..Len(parts) : parts[i].modified})
                   + (IF be[b].wrote THEN 1 ELSE 0)
         IN [need |-> nserverswritten > 1,
             part |-> [i \in 1..Len(parts) |->
                         [parts[i] EXCEPT
                            !.twophase_commit_enabled =
                                IF probe[parts[i].serverid] THEN TRUE ELSE @]],
             probed |-> [s \in Servers |->
                           IF \E i \in 1..Len(parts) : parts[i].serverid = s
                           THEN (IF probe[s] THEN "true" ELSE "false")
                           ELSE "none"],
             noprepare |-> \/ be[b].noprepare
                           \/ \E i \in 1..Len(parts) :
                                 ~probe[parts[i].serverid] /\ parts[i].modified]

\* Mutant: the loop commits a modified participant only under policy prefer.
CanCommit_modified(b) ==
    LET p == CurPart(b) IN
    \/ ~p.modified
    \/ (be[b].policy = DISTRIBUTED_ATOMIC_COMMIT_PREFER /\ ~p.twophase_commit_enabled)

\* The participant the commit loop of PreCommit_FdwXacts is at, and whether
\* the loop commits it: atomic commit is not needed, or it is not modified,
\* or the policy is prefer and twophase_commit_enabled is false.
CanCommit(b) ==
    LET p == CurPart(b) IN
    \/ ~be[b].need
    \/ ~p.modified
    \/ (be[b].policy = DISTRIBUTED_ATOMIC_COMMIT_PREFER /\ ~p.twophase_commit_enabled)

\* list_delete_cell of the cell at index i.
ListDeleteCell(l, i) == SubSeq(l, 1, i - 1) \o SubSeq(l, i + 1, Len(l))

\* PreCommit_FdwXacts up to its commit loop: nothing to do without
\* participants; FdwXactAtomicCommitRequired; with policy required a
\* transaction that needs atomic commit and has XACT_FLAGS_FDWNOPREPARE set
\* fails with the feature-not-supported error.
PreCommit_FdwXacts(b, probe) ==
    /\ be[b].pc = "precommit"
    /\ IF be[b].part = <<>>
       THEN be' = [be EXCEPT ![b].pc = "commit1"]
       ELSE LET r == FdwXactAtomicCommitRequired(b, probe) IN
            IF /\ r.need
               /\ be[b].policy = DISTRIBUTED_ATOMIC_COMMIT_REQUIRED
               /\ r.noprepare
            THEN be' = [be EXCEPT ![b].pc = "abort", ![b].part = r.part,
                                  ![b].need = r.need, ![b].noprepare = r.noprepare,
                                  ![b].probed = r.probed,
                                  ![b].err = "feature_not_supported"]
            ELSE be' = [be EXCEPT ![b].pc = "commitloop", ![b].part = r.part,
                                  ![b].need = r.need, ![b].noprepare = r.noprepare,
                                  ![b].probed = r.probed, ![b].pidx = 1]
    /\ UNCHANGED <<tblVars, walVars, recVars, lastErr, files, xactVars,
                   unresolvedXmin, queueVars, rs, fdwlog>>

\* The commit loop at a participant it commits: FdwXactCommitForeignTransaction
\* calls the FDW's commit callback, whose false return is an ERROR; then the
\* participant is deleted from the list.
FdwXactCommitForeignTransaction(b, ret) ==
    /\ be[b].pc = "commitloop"
    /\ be[b].pidx <= Len(be[b].part)
    /\ CanCommit(b)
    /\ LET p == CurPart(b) IN
       fdwlog' = [fdwlog EXCEPT !.committed =
                    Append(@, <<MyDatabaseId(b), be[b].xid, p.serverid, p.userid>>)]
    /\ be' = IF ret
             THEN [be EXCEPT ![b].part = ListDeleteCell(@, be[b].pidx)]
             ELSE [be EXCEPT ![b].pc = "abort", ![b].err = "commit_failed"]
    /\ UNCHANGED <<tblVars, walVars, recVars, lastErr, files, xactVars,
                   unresolvedXmin, queueVars, rs>>

\* The commit loop at a participant it leaves for two-phase commit.
KeepParticipant(b) ==
    /\ be[b].pc = "commitloop"
    /\ be[b].pidx <= Len(be[b].part)
    /\ ~CanCommit(b)
    /\ be' = [be EXCEPT ![b].pidx = @ + 1]
    /\ UNCHANGED <<tblVars, walVars, recVars, lastErr, files, xactVars,
                   unresolvedXmin, queueVars, rs, fdwlog>>

\* PreCommit_FdwXacts after the loop.  A single participant left by a
\* transaction that wrote no non-temporary relation is committed too (ret is
\* what its commit callback returns) and the list is freed, the pointer to it
\* staying as it was; otherwise FdwXactPrepareForeignTransactions, which
\* returns at once for an empty list.
PreCommitFinish(b, ret) ==
    /\ be[b].pc = "commitloop"
    /\ be[b].pidx > Len(be[b].part)
    /\ IF Len(be[b].part) = 1 /\ ~be[b].wrote
       THEN /\ fdwlog' = [fdwlog EXCEPT !.committed =
                            Append(@, <<MyDatabaseId(b), be[b].xid,
                                        be[b].part[1].serverid, be[b].part[1].userid>>)]
            /\ be' = IF ret
                     THEN [be EXCEPT ![b].pc = "commit1", ![b].freed = TRUE]
                     ELSE [be EXCEPT ![b].pc = "abort", ![b].err = "commit_failed"]
       ELSE /\ be' = IF be[b].part = <<>>
                     THEN [be EXCEPT ![b].pc = "commit1"]
                     ELSE [be EXCEPT ![b].pc = "insert", ![b].pidx = 1]
            /\ UNCHANGED fdwlog
    /\ UNCHANGED <<tblVars, walVars, recVars, lastErr, files, xactVars,
                   unresolvedXmin, queueVars, rs>>

\* The local commit of a transaction that prepared nothing:
\* FdwXactWaitToBeResolved finds no entry of the xid and returns.
LocalCommitOnePhase(b) ==
    /\ be[b].pc = "commit1"
    /\ clog' = [clog EXCEPT ![be[b].xid] = "committed"]
    /\ walFlushed' = Len(wal)
    /\ be' = [be EXCEPT ![b].pc = "forget"]
    /\ UNCHANGED <<tblVars, wal, recVars, lastErr, files, running, nextXid,
                   unresolvedXmin, queueVars, rs, fdwlog>>

NextCommit ==
    \/ \E b \in Backends, regs \in RegLists, policy \in Policies,
          resolvers \in {0, 1}, wrote \in BOOLEAN, noapi \in BOOLEAN :
            register_fdw_xact(b, regs, policy, resolvers, wrote, noapi)
    \/ \E b \in Backends, probe \in [Servers -> BOOLEAN] : PreCommit_FdwXacts(b, probe)
    \/ \E b \in Backends, ret \in BOOLEAN : FdwXactCommitForeignTransaction(b, ret)
    \/ \E b \in Backends : KeepParticipant(b)
    \/ \E b \in Backends, ret \in BOOLEAN : PreCommitFinish(b, ret)
    \/ \E b \in Backends : LocalCommitOnePhase(b)
    \/ \E b \in Backends : InsertEntry(b)
    \/ \E b \in Backends : XLogInsertEntry(b)
    \/ \E b \in Backends : SetValid(b)
    \/ \E b \in Backends, ret \in BOOLEAN : CallPrepare(b, ret)
    \/ \E b \in Backends : MarkPrepared(b)
    \/ \E b \in Backends : LocalCommit(b)
    \/ \E b \in Backends : WaitEnter(b)
    \/ \E b \in Backends : WaitReturn(b)
    \/ \E b \in Backends : WaitCancel(b)
    \/ \E b \in Backends : ForgetAllFdwXactParticipants(b)
    \/ \E b \in Backends : FdwXactComputeRequiredXmin(b)
    \/ \E b \in Backends : EndXact(b)
    \/ \E b \in Backends : AbortXact(b)
    \/ \E b \in Backends : AtEOXact_FdwXacts_abort(b)
    \/ \E is_active \in BOOLEAN : StartDistributed("resolver", is_active)
    \/ StartDangling("resolver")
    \/ \E p \in ResolverProcs : Decide1(p)
    \/ \E p \in ResolverProcs : Decide2(p)
    \/ \E p \in ResolverProcs, ret \in BOOLEAN : CallResolve(p, ret)
    \/ \E p \in ResolverProcs : RemoveResolved(p)
    \/ \E p \in ResolverProcs : FinishDistributed(p)

SpecCommit == Init /\ [][NextCommit]_vars

\* --------------------------------------------- checkpoint and recovery
\* The CRC of the content of a file: the header and the identifier.
COMP_CRC32C(hdr, umid, fdw_xact_id) == <<"crc", hdr, umid, fdw_xact_id>>

\* Mutant: the file keeps the header and loses the user mapping.
RecreateFdwXactFile_noumid(dbid, xid, serverid, userid, content) ==
    [dbid |-> dbid, xid |-> xid, serverid |-> serverid, userid |-> userid,
     hdr |-> <<content.dbid, content.xid, content.serverid, content.userid>>,
     umid |-> InvalidOid, fdw_xact_id |-> content.fdw_xact_id,
     size |-> "aligned",
     crc |-> COMP_CRC32C(<<content.dbid, content.xid, content.serverid,
                           content.userid>>, InvalidOid, content.fdw_xact_id)]

\* RecreateFdwXactFile(dbid, xid, serverid, userid, content, len): the file
\* is named by its arguments; it holds the content, whose length
\* FdwXactInsertFdwXactEntry has aligned, and the CRC of the content.
RecreateFdwXactFile(dbid, xid, serverid, userid, content) ==
    [dbid |-> dbid, xid |-> xid, serverid |-> serverid, userid |-> userid,
     hdr |-> <<content.dbid, content.xid, content.serverid, content.userid>>,
     umid |-> content.umid, fdw_xact_id |-> content.fdw_xact_id,
     size |-> "aligned",
     crc |-> COMP_CRC32C(<<content.dbid, content.xid, content.serverid,
                           content.userid>>, content.umid, content.fdw_xact_id)]

\* The file CheckPointFdwXacts writes for an entry: named by the entry's key,
\* its data read back from the WAL record at insert_start_lsn.
FileOf(e) ==
    RecreateFdwXactFile(e.dbid, e.local_xid, e.serverid, e.userid,
                        wal[e.insert_start_lsn])

\* Mutant: ReadFdwXactFile without the check of the CRC.
ReadFdwXactFile_nocrc(f) ==
    IF f.size # "aligned" THEN <<>>
    ELSE IF f.hdr # <<f.dbid, f.xid, f.serverid, f.userid>> THEN <<>>
    ELSE <<[dbid |-> f.hdr[1], xid |-> f.hdr[2], serverid |-> f.hdr[3],
            userid |-> f.hdr[4], umid |-> f.umid, fdw_xact_id |-> f.fdw_xact_id]>>

\* ReadFdwXactFile on a file of the directory: NULL (the empty sequence
\* here) for a file that is too short or whose CRC offset is not aligned,
\* whose CRC does not match or whose header differs from its name; else the
\* content.
ReadFdwXactFile(f) ==
    IF f.size # "aligned" THEN <<>>
    ELSE IF f.crc # COMP_CRC32C(f.hdr, f.umid, f.fdw_xact_id) THEN <<>>
    ELSE IF f.hdr # <<f.dbid, f.xid, f.serverid, f.userid>> THEN <<>>
    ELSE <<[dbid |-> f.hdr[1], xid |-> f.hdr[2], serverid |-> f.hdr[3],
            userid |-> f.hdr[4], umid |-> f.umid, fdw_xact_id |-> f.fdw_xact_id]>>

\* XlogReadFdwXactData finds an INSERT record at the LSN.
XlogReadable(lsn) == lsn \in 1..Len(wal) /\ wal[lsn].type = "INSERT"

\* Mutant: the loop writes every entry that is not on disk, valid or not and
\* whatever its insert_end_lsn.
RECURSIVE CheckPointLoop_all(_, _, _, _)
CheckPointLoop_all(S, fs, i, redo_horizon) ==
    IF i > Len(fdw_xacts) THEN [slots |-> S, files |-> fs]
    ELSE LET f == fdw_xacts[i]
             e == S[f]
         IN IF ~e.ondisk
            THEN IF ~XlogReadable(e.insert_start_lsn)
                 THEN [slots |-> S, files |-> fs]
                 ELSE CheckPointLoop_all(
                        [S EXCEPT ![f].ondisk = TRUE,
                                  ![f].insert_start_lsn = InvalidXLogRecPtr,
                                  ![f].insert_end_lsn = InvalidXLogRecPtr],
                        RemoveFdwXactFile(fs, KeyOf(e)) \cup {FileOf(e)},
                        i + 1, redo_horizon)
            ELSE CheckPointLoop_all(S, fs, i + 1, redo_horizon)

\* CheckPointFdwXacts' loop from index i of the array: the slots and the
\* files afterwards; an unreadable record is an ERROR that ends it.
RECURSIVE CheckPointLoop(_, _, _, _)
CheckPointLoop(S, fs, i, redo_horizon) ==
    IF i > Len(fdw_xacts) THEN [slots |-> S, files |-> fs]
    ELSE LET f == fdw_xacts[i]
             e == S[f]
         IN IF (e.valid \/ e.inredo) /\ ~e.ondisk /\ e.insert_end_lsn <= redo_horizon
            THEN IF ~XlogReadable(e.insert_start_lsn)
                 THEN [slots |-> S, files |-> fs]
                 ELSE CheckPointLoop(
                        [S EXCEPT ![f].ondisk = TRUE,
                                  ![f].insert_start_lsn = InvalidXLogRecPtr,
                                  ![f].insert_end_lsn = InvalidXLogRecPtr],
                        RemoveFdwXactFile(fs, KeyOf(e)) \cup {FileOf(e)},
                        i + 1, redo_horizon)
            ELSE CheckPointLoop(S, fs, i + 1, redo_horizon)

\* A checkpoint starts: the redo horizon is the current insert position, and
\* the backends that have delayChkpt set are collected.
CkptStart ==
    /\ ~inRecovery
    /\ ckpt.pc = "idle"
    /\ ckpt' = [pc |-> "flush", redo |-> Len(wal) + 1,
                waitFor |-> {b \in Backends : be[b].delayChkpt}]
    /\ UNCHANGED <<tblVars, walVars, inRecovery, lastRedo, recov, lastErr, files,
                   xactVars, unresolvedXmin, be, queueVars, rs, fdwlog>>

\* After the collected backends have cleared delayChkpt the checkpoint
\* flushes its data: CheckPointFdwXacts(redo horizon).
CheckPointFdwXacts ==
    /\ ckpt.pc = "flush"
    /\ \A b \in ckpt.waitFor : ~be[b].delayChkpt
    /\ LET r == CheckPointLoop(slots, files, 1, ckpt.redo) IN
       /\ slots' = r.slots
       /\ files' = r.files
    /\ ckpt' = [ckpt EXCEPT !.pc = "record", !.waitFor = {}]
    /\ UNCHANGED <<fdw_xacts, freeFdwXacts, walVars, inRecovery, lastRedo, recov,
                   lastErr, xactVars, unresolvedXmin, be, queueVars, rs, fdwlog>>

\* The checkpoint completes: its record is flushed and pg_control points to
\* the new redo horizon.  A checkpoint does not complete while a backend
\* has delayChkpt set.
CkptComplete ==
    /\ ckpt.pc = "record"
    /\ \A b \in Backends : ~be[b].delayChkpt
    /\ lastRedo' = ckpt.redo
    /\ walFlushed' = Len(wal)
    /\ ckpt' = InitCkpt
    /\ UNCHANGED <<tblVars, wal, inRecovery, recov, lastErr, files, xactVars,
                   unresolvedXmin, be, queueVars, rs, fdwlog>>

\* The server crashes and restarts: shared memory is initialized again, the
\* WAL keeps its flushed part and possibly more, files and the outcomes of
\* finished transactions stay; the startup process begins recovery at the
\* redo horizon of the last completed checkpoint.
Crash ==
    /\ recov.crashes < MaxCrashes
    /\ \E n \in walFlushed..Len(wal) :
          /\ wal' = SubSeq(wal, 1, n)
          /\ walFlushed' = n
    /\ SetTbl(FdwXactShmemInit)
    /\ running' = {}
    /\ unresolvedXmin' = InvalidTransactionId
    /\ be' = [b \in Backends |-> InitBackend]
    /\ activeQ' = <<>>
    /\ retryQ' = <<>>
    /\ rs' = [p \in ResolverProcs |-> InitResolver]
    /\ ckpt' = InitCkpt
    /\ inRecovery' = TRUE
    /\ recov' = [pc |-> "restore", pos |-> lastRedo, crashes |-> recov.crashes + 1]
    /\ UNCHANGED <<lastRedo, lastErr, files, clog, nextXid, fdwlog>>

TransactionIdFollowsOrEquals(id1, id2) == id1 >= id2

\* The orders in which ReadDir may return the files of the directory.
ReadDirOrders(fs) ==
    {q \in [1..Cardinality(fs) -> fs] : \A f \in fs : \E i \in 1..Cardinality(fs) : q[i] = f}

\* restoreFdwXactData's loop from file i of the directory listing q, with
\* ProcessFdwXactBuffer(.., fromdisk = true): a file of a future xid and a
\* file ReadFdwXactFile rejects are removed, any other is added with
\* FdwXactRedoAdd.
RECURSIVE RestoreLoop(_, _, _, _)
RestoreLoop(T, fs, q, i) ==
    IF i > Len(q) THEN [err |-> "none", T |-> T, files |-> fs]
    ELSE IF TransactionIdFollowsOrEquals(q[i].xid, nextXid)
    THEN RestoreLoop(T, RemoveFdwXactFile(fs, FileKey(q[i])), q, i + 1)
    ELSE IF ReadFdwXactFile(q[i]) = <<>>
    THEN RestoreLoop(T, RemoveFdwXactFile(fs, FileKey(q[i])), q, i + 1)
    ELSE LET r == FdwXactRedoAdd(T, ReadFdwXactFile(q[i])[1],
                                 InvalidXLogRecPtr, InvalidXLogRecPtr) IN
         IF r.err # "none" THEN [err |-> r.err, T |-> T, files |-> fs]
         ELSE RestoreLoop(r.T, fs, q, i + 1)

\* restoreFdwXactData, at the beginning of recovery.
restoreFdwXactData ==
    /\ recov.pc = "restore"
    /\ \E q \in ReadDirOrders(files) :
          LET r == RestoreLoop(Tbl, files, q, 1) IN
          /\ SetTbl(r.T)
          /\ files' = r.files
          /\ recov' = [recov EXCEPT !.pc = IF r.err = "none" THEN "redo" ELSE "failed"]
    /\ UNCHANGED <<walVars, inRecovery, ckpt, lastRedo, lastErr, xactVars,
                   unresolvedXmin, be, queueVars, rs, fdwlog>>

\* FdwXactRedoRemove: the entry of the key, if any, is removed, and its file
\* when it is on disk.
FdwXactRedoRemove(T, fs, dbid, xid, serverid, userid) ==
    LET fdwxact == get_one_fdw_xact(T, dbid, xid, serverid, userid) IN
    IF fdwxact = NULL THEN [err |-> "none", T |-> T, files |-> fs]
    ELSE [err |-> "none",
          T |-> remove_fdw_xact(T, fdwxact).T,
          files |-> IF T.slots[fdwxact].ondisk
                    THEN RemoveFdwXactFile(fs, KeyOf(T.slots[fdwxact]))
                    ELSE fs]

\* fdw_xact_redo of one record: the error raised, the table and the files.
fdw_xact_redo(T, fs, rec, start_lsn, end_lsn) ==
    IF rec.type = "INSERT"
    THEN LET r == FdwXactRedoAdd(T, rec, start_lsn, end_lsn) IN
         [err |-> r.err, T |-> r.T, files |-> fs]
    ELSE FdwXactRedoRemove(T, fs, rec.dbid, rec.xid, rec.serverid, rec.userid)

\* The startup process replays the next record; an error ends recovery (the
\* startup process exits and the server does not come up).
RedoRecord ==
    /\ recov.pc = "redo"
    /\ recov.pos <= Len(wal)
    /\ LET r == fdw_xact_redo(Tbl, files, wal[recov.pos], recov.pos, recov.pos + 1) IN
       /\ SetTbl(r.T)
       /\ files' = r.files
       /\ recov' = IF r.err = "none"
                   THEN [recov EXCEPT !.pos = @ + 1]
                   ELSE [recov EXCEPT !.pc = "failed"]
    /\ UNCHANGED <<walVars, inRecovery, ckpt, lastRedo, lastErr, xactVars,
                   unresolvedXmin, be, queueVars, rs, fdwlog>>

\* RecoverFdwXacts' loop from index i of the array.  ProcessFdwXactBuffer
\* removes the file or the entry of a future xid, and the file that
\* ReadFdwXactFile rejects, and the loop continues with the next index;
\* a file that cannot be opened, and a record that cannot be read, is an
\* ERROR; every other entry becomes valid.
RECURSIVE RecoverLoop(_, _, _)
RecoverLoop(T, fs, i) ==
    IF i > Len(T.arr) THEN [err |-> "none", T |-> T, files |-> fs]
    ELSE LET f == T.arr[i]
             e == T.slots[f]
             onfile == {file \in fs : FileKey(file) = KeyOf(e)}
         IN IF TransactionIdFollowsOrEquals(e.local_xid, nextXid)
            THEN IF e.ondisk
                 THEN RecoverLoop(T, RemoveFdwXactFile(fs, KeyOf(e)), i + 1)
                 ELSE LET r == FdwXactRedoRemove(T, fs, e.dbid, e.local_xid,
                                                 e.serverid, e.userid)
                      IN RecoverLoop(r.T, r.files, i + 1)
            ELSE IF e.ondisk /\ onfile = {}
            THEN [err |-> "could not open", T |-> T, files |-> fs]
            ELSE IF e.ondisk /\ \E file \in onfile : ReadFdwXactFile(file) = <<>>
            THEN RecoverLoop(T, RemoveFdwXactFile(fs, KeyOf(e)), i + 1)
            ELSE IF ~e.ondisk /\ ~XlogReadable(e.insert_start_lsn)
            THEN [err |-> "could not read", T |-> T, files |-> fs]
            ELSE RecoverLoop([T EXCEPT !.slots[f].inredo = FALSE,
                                       !.slots[f].valid = TRUE], fs, i + 1)

\* The end of recovery: RecoverFdwXacts, then the server accepts writes.
RecoverFdwXacts ==
    /\ recov.pc = "redo"
    /\ recov.pos > Len(wal)
    /\ LET r == RecoverLoop(Tbl, files, 1) IN
       /\ SetTbl(r.T)
       /\ files' = r.files
       /\ inRecovery' = (r.err # "none")
       /\ recov' = [recov EXCEPT !.pc = IF r.err = "none" THEN "up" ELSE "failed"]
    /\ UNCHANGED <<walVars, ckpt, lastRedo, lastErr, xactVars, unresolvedXmin, be,
                   queueVars, rs, fdwlog>>

BeginCrash(b, n) ==
    /\ nextXid < FirstNormalTransactionId + MaxCrashXacts
    /\ Begin(b, n)

NextCrash ==
    \/ \E b \in Backends, n \in 1..MaxPrepared : BeginCrash(b, n)
    \/ \E b \in Backends : InsertEntry(b)
    \/ \E b \in Backends : XLogInsertEntry(b)
    \/ \E b \in Backends : SetValid(b)
    \/ \E b \in Backends, ret \in BOOLEAN : CallPrepare(b, ret)
    \/ \E b \in Backends : MarkPrepared(b)
    \/ \E b \in Backends : LocalCommit(b)
    \/ \E b \in Backends : WaitEnter(b)
    \/ \E b \in Backends : WaitReturn(b)
    \/ \E b \in Backends : WaitCancel(b)
    \/ \E b \in Backends : ForgetAllFdwXactParticipants(b)
    \/ \E b \in Backends : FdwXactComputeRequiredXmin(b)
    \/ \E b \in Backends : EndXact(b)
    \/ \E b \in Backends : AbortXact(b)
    \/ \E b \in Backends : AtEOXact_FdwXacts_abort(b)
    \/ \E is_active \in BOOLEAN : StartDistributed("resolver", is_active)
    \/ StartDangling("resolver")
    \/ \E p \in ResolverProcs : Decide1(p)
    \/ \E p \in ResolverProcs : Decide2(p)
    \/ \E p \in ResolverProcs, ret \in BOOLEAN : CallResolve(p, ret)
    \/ \E p \in ResolverProcs : RemoveResolved(p)
    \/ \E p \in ResolverProcs : FinishDistributed(p)
    \/ CkptStart
    \/ CheckPointFdwXacts
    \/ CkptComplete
    \/ Crash
    \/ restoreFdwXactData
    \/ RedoRecord
    \/ RecoverFdwXacts

SpecCrash == Init /\ [][NextCrash]_vars

\* --------------------------------------- manual removal and the spill files
\* pg_remove_fdw_xact(xid, serverid, userid): one locked section that looks
\* the entry up and calls remove_fdw_xact; RemoveFdwXactFile is not called.
\* Without a matching entry it raises ERROR and changes nothing.
pg_remove_fdw_xact(xid, serverid, userid) ==
    /\ ~inRecovery
    /\ LET fdwxact == get_one_fdw_xact(Tbl, ResolverDb, xid, serverid, userid)
           r == remove_fdw_xact(Tbl, fdwxact)
       IN /\ fdwxact # NULL
          /\ SetTbl(r.T)
          /\ XLogRemove(r.rec)
    /\ UNCHANGED <<recVars, lastErr, files, xactVars, unresolvedXmin, be,
                   queueVars, rs, fdwlog>>

\* Backends, the resolver, the checkpointer and sessions calling
\* pg_remove_fdw_xact; no crash.
NextSpill ==
    \/ \E b \in Backends, n \in 1..MaxPrepared : BeginCrash(b, n)
    \/ \E b \in Backends : InsertEntry(b)
    \/ \E b \in Backends : XLogInsertEntry(b)
    \/ \E b \in Backends : SetValid(b)
    \/ \E b \in Backends, ret \in BOOLEAN : CallPrepare(b, ret)
    \/ \E b \in Backends : MarkPrepared(b)
    \/ \E b \in Backends : LocalCommit(b)
    \/ \E b \in Backends : WaitEnter(b)
    \/ \E b \in Backends : WaitReturn(b)
    \/ \E b \in Backends : WaitCancel(b)
    \/ \E b \in Backends : ForgetAllFdwXactParticipants(b)
    \/ \E b \in Backends : FdwXactComputeRequiredXmin(b)
    \/ \E b \in Backends : EndXact(b)
    \/ \E b \in Backends : AbortXact(b)
    \/ \E b \in Backends : AtEOXact_FdwXacts_abort(b)
    \/ \E is_active \in BOOLEAN : StartDistributed("resolver", is_active)
    \/ StartDangling("resolver")
    \/ \E p \in ResolverProcs : Decide1(p)
    \/ \E p \in ResolverProcs : Decide2(p)
    \/ \E p \in ResolverProcs, ret \in BOOLEAN : CallResolve(p, ret)
    \/ \E p \in ResolverProcs : RemoveResolved(p)
    \/ \E p \in ResolverProcs : FinishDistributed(p)
    \/ CkptStart
    \/ CheckPointFdwXacts
    \/ CkptComplete
    \/ \E x \in Xids, s \in Servers : pg_remove_fdw_xact(x, s, TheUser)

SpecSpill == Init /\ [][NextSpill]_vars

\* ------------------------------------ processes acting on the same entry
\* Transactions with one participant each, the resolver worker and sessions
\* calling pg_remove_fdw_xact.
NextReuse ==
    \/ \E b \in Backends : Begin(b, 1)
    \/ \E b \in Backends : InsertEntry(b)
    \/ \E b \in Backends : XLogInsertEntry(b)
    \/ \E b \in Backends : SetValid(b)
    \/ \E b \in Backends, ret \in BOOLEAN : CallPrepare(b, ret)
    \/ \E b \in Backends : MarkPrepared(b)
    \/ \E b \in Backends : LocalCommit(b)
    \/ \E b \in Backends : WaitEnter(b)
    \/ \E b \in Backends : WaitReturn(b)
    \/ \E b \in Backends : WaitCancel(b)
    \/ \E b \in Backends : ForgetAllFdwXactParticipants(b)
    \/ \E b \in Backends : FdwXactComputeRequiredXmin(b)
    \/ \E b \in Backends : EndXact(b)
    \/ \E b \in Backends : AbortXact(b)
    \/ \E b \in Backends : AtEOXact_FdwXacts_abort(b)
    \/ \E is_active \in BOOLEAN : StartDistributed("resolver", is_active)
    \/ StartDangling("resolver")
    \/ \E p \in {"resolver"} : Decide1(p)
    \/ \E p \in {"resolver"} : Decide2(p)
    \/ \E p \in {"resolver"}, ret \in BOOLEAN : CallResolve(p, ret)
    \/ \E p \in {"resolver"} : RemoveResolved(p)
    \/ \E p \in {"resolver"} : FinishDistributed(p)
    \/ \E x \in Xids, s \in Servers : pg_remove_fdw_xact(x, s, TheUser)

SpecReuse == Init /\ [][NextReuse]_vars

\* ------------------------------------------------ the system kept running
\* The system with crashes under the scheduling the code relies on: every
\* backend that can take a step of its transaction does so, the startup
\* process goes on with recovery, the resolver worker goes on with a
\* resolution it began, starts FdwXactResolveAllDanglingTransactions again and
\* again, and the FDW's resolve callback returns true again and again.
BackendStep ==
    \E b \in Backends :
        \/ InsertEntry(b) \/ XLogInsertEntry(b) \/ SetValid(b)
        \/ MarkPrepared(b) \/ LocalCommit(b) \/ WaitEnter(b) \/ WaitReturn(b)
        \/ ForgetAllFdwXactParticipants(b) \/ FdwXactComputeRequiredXmin(b)
        \/ EndXact(b) \/ AbortXact(b) \/ AtEOXact_FdwXacts_abort(b)
        \/ \E ret \in BOOLEAN : CallPrepare(b, ret)

ResolverStep ==
    \/ Decide1("resolver") \/ Decide2("resolver")
    \/ RemoveResolved("resolver") \/ FinishDistributed("resolver")

StartupStep == restoreFdwXactData \/ RedoRecord \/ RecoverFdwXacts

SpecLive ==
    /\ Init
    /\ [][NextCrash]_vars
    /\ WF_vars(BackendStep)
    /\ WF_vars(ResolverStep)
    /\ WF_vars(StartupStep)
    /\ SF_vars(StartDangling("resolver"))
    /\ SF_vars(CallResolve("resolver", TRUE))

\* ------------------------------------------------ redo of any WAL sequence
\* The keys and records of the replayed sequences; an INSERT record carries
\* one of two identifiers (the random part of the generated identifier).
RedoKeys ==
    {<<d, x, s, u>> : d \in Dbs, x \in {FirstNormalTransactionId}, s \in Servers,
                      u \in Users}
        \cup {<<1, FirstNormalTransactionId + 1, 1, TheUser>>}

RedoRecords ==
    {InsertRecord(k[1], k[2], k[3], k[4], UserMappingId(k[3], k[4]),
                  <<a, k[2], k[3], k[4]>>) : k \in RedoKeys, a \in {"fx", "fy"}}
      \cup {RemoveRecord([dbid |-> k[1], local_xid |-> k[2], serverid |-> k[3],
                          userid |-> k[4]]) : k \in RedoKeys}

\* Recovery of a server with an empty spill directory whose WAL is any
\* sequence of at most MaxRedoWal records.
InitRedo ==
    /\ InitShmem
    /\ inRecovery = TRUE
    /\ \E n \in 0..MaxRedoWal : wal \in [1..n -> RedoRecords]
    /\ walFlushed = Len(wal)
    /\ nextXid = FirstNormalTransactionId + MaxXacts
    /\ recov = [pc |-> "redo", pos |-> 1, crashes |-> MaxCrashes]

NextRedo ==
    \/ RedoRecord
    \/ RecoverFdwXacts

SpecRedo == InitRedo /\ [][NextRedo]_vars

\* --------------------------------------------- repeated redo of a sequence
\* The WAL sequences a running server writes: an INSERT record only for a key
\* with no entry, a REMOVE record only for a key with an entry.
WellFormedWal(w) ==
    \A i \in 1..Len(w) :
        LET before == {j \in 1..(i - 1) : FileKey(w[j]) = FileKey(w[i])}
            open == \E j \in before :
                        /\ w[j].type = "INSERT"
                        /\ \A k \in before : k > j => w[k].type = "INSERT"
        IN IF w[i].type = "INSERT" THEN ~open ELSE open

\* The entries of a table: the structs on its active array.
Entries(T) == {T.slots[T.arr[i]] : i \in 1..Len(T.arr)}

\* Redo starts on an empty table and an empty spill directory with a
\* well-formed WAL sequence; recov also counts the passes and keeps the
\* entries and the files as the first pass left them.
InitReplay ==
    /\ InitShmem
    /\ inRecovery = TRUE
    /\ \E n \in 1..MaxRedoWal : wal \in {w \in [1..n -> RedoRecords] : WellFormedWal(w)}
    /\ walFlushed = Len(wal)
    /\ nextXid = FirstNormalTransactionId + MaxXacts
    /\ recov = [pc |-> "redo", pos |-> 1, crashes |-> MaxCrashes, pass |-> 1,
                once |-> <<>>]

\* The end of a pass: the same records are handed to fdw_xact_redo again,
\* on the table and the files as they are.
ReplayAgain ==
    /\ recov.pc = "redo"
    /\ recov.pos > Len(wal)
    /\ recov.pass < MaxReplays
    /\ recov' = [recov EXCEPT !.pos = 1, !.pass = @ + 1,
                              !.once = IF recov.pass = 1 THEN <<Entries(Tbl), files>> ELSE @]
    /\ UNCHANGED <<tblVars, walVars, inRecovery, ckpt, lastRedo, lastErr, files,
                   xactVars, unresolvedXmin, be, queueVars, rs, fdwlog>>

NextReplay ==
    \/ RedoRecord
    \/ ReplayAgain

SpecReplay == InitReplay /\ [][NextReplay]_vars

\* ------------------------------------- table-level specification
\* Inserts and removes with arguments drawn from small sets: the locked
\* section of FdwXactInsertFdwXactEntry, FdwXactRedoAdd, and the removal that
\* ends FdwXactResolveForeignTransaction, given any FdwXact pointer a caller
\* may still hold (a slot that was freed meanwhile included).
TblXids == {FirstNormalTransactionId, FirstNormalTransactionId + 1}
TblBackend == 1

TblInsert(dbid, xid, serverid, userid) ==
    /\ ~inRecovery
    /\ LET r == InsertEntryLocked(Tbl, TblBackend, dbid, xid, serverid, userid,
                                  UserMappingId(serverid, userid),
                                  GenId(xid, serverid, userid)) IN
       /\ SetTbl(r.T)
       /\ lastErr' = [op |-> "insert", key |-> <<dbid, xid, serverid, userid>>,
                      err |-> r.err]
    /\ UNCHANGED <<wal, walFlushed, recVars, files, xactVars, unresolvedXmin,
                   be, queueVars, rs, fdwlog>>

TblRedoAdd(dbid, xid, serverid, userid) ==
    /\ inRecovery
    /\ LET rec == [type |-> "INSERT", dbid |-> dbid, xid |-> xid,
                   serverid |-> serverid, userid |-> userid,
                   umid |-> UserMappingId(serverid, userid),
                   fdw_xact_id |-> GenId(xid, serverid, userid)]
           r == FdwXactRedoAdd(Tbl, rec, 1, 2) IN
       /\ SetTbl(r.T)
       /\ lastErr' = [op |-> "insert", key |-> <<dbid, xid, serverid, userid>>,
                      err |-> r.err]
    /\ UNCHANGED <<wal, walFlushed, recVars, files, xactVars, unresolvedXmin,
                   be, queueVars, rs, fdwlog>>

TblRemove(fdw_xact) ==
    /\ Len(wal) < MaxWal
    /\ LET r == remove_fdw_xact(Tbl, fdw_xact) IN
       /\ SetTbl(r.T)
       /\ XLogRemove(r.rec)
       /\ lastErr' = [op |-> "remove", key |-> KeyOf(slots[fdw_xact]), err |-> r.err]
    /\ UNCHANGED <<recVars, files, xactVars, unresolvedXmin, be, queueVars, rs,
                   fdwlog>>

InitTable ==
    /\ SetInit
    /\ inRecovery \in BOOLEAN

NextTable ==
    \/ \E d \in Dbs, x \in TblXids, s \in Servers, u \in Users : TblInsert(d, x, s, u)
    \/ \E d \in Dbs, x \in TblXids, s \in Servers, u \in Users : TblRedoAdd(d, x, s, u)
    \/ \E f \in Slots : TblRemove(f)

SpecTable == InitTable /\ [][NextTable]_vars

\* ------------------------------------------ the identifier of a participant
\* What get_prepareid hands back: no identifier, or one of a length.
NoId == -1
PrepareIds == {NoId} \cup 0..MaxIdLen

\* A backend reaches FdwXactPrepareForeignTransactions with one participant
\* whose FDW has a get_prepareid callback.
BeginPrepareId(b) ==
    /\ ~inRecovery
    /\ be[b].pc = "idle"
    /\ nextXid = FirstNormalTransactionId
    /\ be' = [be EXCEPT ![b] =
                [pc |-> "getid", xid |-> nextXid, pidx |-> 1,
                 part |-> <<[serverid |-> 1, userid |-> TheUser,
                             fdw_xact |-> NULL, modified |-> TRUE]>>,
                 fdwXactState |-> FDW_XACT_NOT_WAITING,
                 fdwXactWaitXid |-> InvalidTransactionId,
                 delayChkpt |-> FALSE, n_lefts |-> 0, cancelled |-> FALSE,
                 id |-> NoId, err |-> "none"]]
    /\ running' = running \cup {nextXid}
    /\ nextXid' = nextXid + 1
    /\ UNCHANGED <<tblVars, walVars, recVars, lastErr, files, clog,
                   unresolvedXmin, queueVars, rs, fdwlog>>

\* FdwXactPrepareForeignTransactions, the identifier: get_prepareid returns
\* id; a missing one and one longer than NAMEDATALEN are an ERROR, otherwise
\* the entry is inserted next.
get_prepareid(b, id) ==
    /\ be[b].pc = "getid"
    /\ be' = [be EXCEPT ![b].id = id,
                        ![b].err = IF id = NoId THEN "undefined_object"
                                   ELSE IF id > NAMEDATALEN THEN "name_too_long"
                                   ELSE "none",
                        ![b].pc = IF id = NoId \/ id > NAMEDATALEN
                                  THEN "abort" ELSE "insert"]
    /\ UNCHANGED <<tblVars, walVars, recVars, lastErr, files, xactVars,
                   unresolvedXmin, queueVars, rs, fdwlog>>

NextPrepareId ==
    \/ \E b \in Backends : BeginPrepareId(b)
    \/ \E b \in Backends, id \in PrepareIds : get_prepareid(b, id)
    \/ \E b \in Backends : InsertEntry(b)
    \/ \E b \in Backends : XLogInsertEntry(b)
    \/ \E b \in Backends : SetValid(b)
    \/ \E b \in Backends, ret \in BOOLEAN : CallPrepare(b, ret)
    \/ \E b \in Backends : MarkPrepared(b)

SpecPrepareId == Init /\ [][NextPrepareId]_vars

\* -------------------------------------- FdwXactLock, callbacks and file I/O
\* What a function does with FdwXactLock, in program order: it acquires and
\* releases the lock, calls an FDW callback, does file or WAL I/O, or works
\* on shared memory.  A callback or a shared memory step marked "_or_error"
\* can end in ereport(ERROR).
AcqS == "LWLockAcquire_SHARED"
AcqX == "LWLockAcquire_EXCLUSIVE"
Rel == "LWLockRelease"

RECURSIVE Repeat(_, _)
Repeat(ops, n) == IF n = 0 THEN <<>> ELSE ops \o Repeat(ops, n - 1)

\* AbortTransaction after an ERROR in a backend: LWLockReleaseAll, then
\* AtEOXact_FdwXacts(false) with the rollback callback and
\* ForgetAllFdwXactParticipants.  In other processes the ERROR ends in
\* LWLockReleaseAll alone.
AtEOXact_FdwXacts_ops ==
    <<"LWLockReleaseAll", "callback", AcqX, "shmem", Rel, AcqS, "shmem", Rel>>

ErrorCleanup_ops == <<"LWLockReleaseAll">>

\* Mutant: the status update's lock is taken before the prepare callback.
FdwXactPrepareForeignTransactions_locked(n) ==
    Repeat(<<"callback_or_error",
             AcqX, "shmem_or_error", Rel, "io", AcqX, "shmem", Rel,
             AcqX, "callback_or_error", "shmem", Rel>>, n)

\* FdwXactPrepareForeignTransactions for n participants: get_prepareid,
\* FdwXactInsertFdwXactEntry (insert under the lock, XLogInsert and XLogFlush
\* without it, valid under the lock), the prepare callback, the status update
\* under the lock.
FdwXactPrepareForeignTransactions_ops(n) ==
    Repeat(<<"callback_or_error",
             AcqX, "shmem_or_error", Rel, "io", AcqX, "shmem", Rel,
             "callback_or_error",
             AcqX, "shmem", Rel>>, n)

\* The commit of a backend with n participants: the probes of
\* FdwXactAtomicCommitRequired, then either the commit callbacks of
\* PreCommit_FdwXacts, or preparation, FdwXactWaitToBeResolved and
\* ForgetAllFdwXactParticipants with FdwXactComputeRequiredXmin.
PreCommit_FdwXacts_ops(n, twophase) ==
    [ops |-> Repeat(<<"callback">>, n) \o
             (IF twophase
              THEN FdwXactPrepareForeignTransactions_ops(n) \o
                   <<AcqX, "shmem", Rel>> \o
                   <<AcqX, "shmem", Rel, AcqS, "shmem", Rel>>
              ELSE Repeat(<<"callback_or_error">>, n)),
     catch |-> AtEOXact_FdwXacts_ops]

\* FdwXactResolveForeignTransaction: the resolve callback without the lock;
\* then, under the exclusive lock, RemoveFdwXactFile for an entry on disk
\* and remove_fdw_xact, which can raise ERROR and otherwise inserts and
\* flushes the REMOVE record.
FdwXactResolveForeignTransaction_ops(ondisk) ==
    <<"callback_or_error", AcqX>> \o
    (IF ondisk THEN <<"io">> ELSE <<>>) \o
    <<"shmem_or_error", "io", Rel>>

\* FdwXactResolveDistributedTransaction with n participants: the waiter and
\* its entries under the shared lock, the resolutions, the waiter's release
\* under the exclusive lock; PG_CATCH takes the exclusive lock to move the
\* waiter to the retry queue and throws again.
FdwXactResolveDistributedTransaction_ops(n, ondisk) ==
    [ops |-> <<AcqS, "shmem", Rel>> \o
             Repeat(FdwXactResolveForeignTransaction_ops(ondisk), n) \o
             <<AcqX, "shmem", Rel>>,
     catch |-> <<AcqX, "shmem", Rel>> \o ErrorCleanup_ops]

\* FdwXactResolveAllDanglingTransactions with n dangling entries, and
\* pg_resolve_fdw_xact (n = 1): the scan under the shared lock, then the
\* resolutions.
FdwXactResolveAllDanglingTransactions_ops(n, ondisk) ==
    [ops |-> <<AcqS, "shmem", Rel>> \o
             Repeat(FdwXactResolveForeignTransaction_ops(ondisk), n),
     catch |-> ErrorCleanup_ops]

\* pg_remove_fdw_xact: lookup and remove_fdw_xact, with its REMOVE record,
\* under the exclusive lock; without an entry it raises ERROR.
pg_remove_fdw_xact_ops ==
    [ops |-> <<AcqX, "shmem_or_error", "shmem", "io", Rel>>,
     catch |-> ErrorCleanup_ops]

\* CheckPointFdwXacts with n entries to copy: under the shared lock it reads
\* each record from the WAL and writes the file; the directory is fsynced
\* after the release.
CheckPointFdwXacts_ops(n) ==
    [ops |-> <<AcqS>> \o Repeat(<<"io", "io", "shmem">>, n) \o <<Rel, "io">>,
     catch |-> ErrorCleanup_ops]

\* restoreFdwXactData with n files: under the exclusive lock it reads the
\* directory and each file and adds the entry.
restoreFdwXactData_ops(n) ==
    [ops |-> <<AcqX, "io">> \o Repeat(<<"io", "shmem_or_error">>, n) \o <<Rel>>,
     catch |-> ErrorCleanup_ops]

\* fdw_xact_redo: FdwXactRedoAdd, or FdwXactRedoRemove with the unlink of an
\* on-disk entry's file, under the exclusive lock.
fdw_xact_redo_ops(insert, ondisk) ==
    [ops |-> IF insert THEN <<AcqX, "shmem_or_error", Rel>>
             ELSE <<AcqX>> \o (IF ondisk THEN <<"io">> ELSE <<>>) \o <<"shmem", Rel>>,
     catch |-> ErrorCleanup_ops]

LockProgs ==
    {PreCommit_FdwXacts_ops(n, tp) : n \in 1..MaxLockLoop, tp \in BOOLEAN}
    \cup {FdwXactResolveDistributedTransaction_ops(n, d) : n \in 1..MaxLockLoop, d \in BOOLEAN}
    \cup {FdwXactResolveAllDanglingTransactions_ops(n, d) : n \in 1..MaxLockLoop, d \in BOOLEAN}
    \cup {pg_remove_fdw_xact_ops}
    \cup {CheckPointFdwXacts_ops(n) : n \in 0..MaxLockLoop}
    \cup {restoreFdwXactData_ops(n) : n \in 0..MaxLockLoop}
    \cup {fdw_xact_redo_ops(i, d) : i \in BOOLEAN, d \in BOOLEAN}

\* A process that runs no function of the module.
InitLockProc ==
    [pc |-> "idle", ops |-> <<>>, catch |-> <<>>, ip |-> 1, held |-> "none",
     doing |-> "none"]

InitLock ==
    /\ slots = FdwXactShmemInit.slots
    /\ fdw_xacts = FdwXactShmemInit.arr
    /\ freeFdwXacts = FdwXactShmemInit.free
    /\ lastErr = [op |-> "none", key |-> <<>>, err |-> "none"]
    /\ files = {}
    /\ clog = [x \in Xids |-> "none"]
    /\ running = {}
    /\ unresolvedXmin = InvalidTransactionId
    /\ be = [b \in Backends |-> InitLockProc]
    /\ activeQ = <<>>
    /\ retryQ = <<>>
    /\ rs = [p \in ResolverProcs |-> InitResolver]
    /\ fdwlog = InitLog
    /\ ckpt = InitCkpt
    /\ lastRedo = 1
    /\ wal = <<>>
    /\ walFlushed = 0
    /\ nextXid = FirstNormalTransactionId
    /\ recov = InitRecov
    /\ inRecovery = FALSE

lockFrame ==
    <<tblVars, walVars, recVars, lastErr, files, xactVars, unresolvedXmin,
      queueVars, rs, fdwlog>>

CurOp(b) == IF be[b].ip <= Len(be[b].ops) THEN be[b].ops[be[b].ip] ELSE "return"

\* ereport(ERROR) in process b: control goes to the handler with the locks
\* still held.
ThrowError(b) ==
    [be EXCEPT ![b].ops = be[b].catch, ![b].catch = <<>>, ![b].ip = 1,
               ![b].doing = "none"]

\* A process enters one of the functions, after it returned from another.
LockStart(b, prog) ==
    /\ be[b].doing = "none"
    /\ CurOp(b) = "return"
    /\ be' = [be EXCEPT ![b] = [InitLockProc EXCEPT !.pc = "run", !.ops = prog.ops,
                                                    !.catch = prog.catch,
                                                    !.held = be[b].held]]
    /\ UNCHANGED lockFrame

\* LWLockAcquire(FdwXactLock, mode): the process goes on when no other mode
\* held by any process, itself included, conflicts.
LWLockAcquire(b) ==
    /\ CurOp(b) \in {AcqS, AcqX}
    /\ \A c \in Backends : be[c].held # "exclusive"
    /\ CurOp(b) = AcqX => \A c \in Backends : be[c].held = "none"
    /\ be' = [be EXCEPT ![b].held = IF CurOp(b) = AcqX THEN "exclusive" ELSE "shared",
                        ![b].ip = @ + 1]
    /\ UNCHANGED lockFrame

\* LWLockRelease(FdwXactLock), and LWLockReleaseAll of error cleanup.
LWLockRelease(b) ==
    /\ CurOp(b) \in {Rel, "LWLockReleaseAll"}
    /\ be' = [be EXCEPT ![b].held = "none", ![b].ip = @ + 1]
    /\ UNCHANGED lockFrame

\* An FDW callback or an I/O call begins.
OpBegin(b) ==
    /\ be[b].doing = "none"
    /\ CurOp(b) \in {"callback", "callback_or_error", "io"}
    /\ be' = [be EXCEPT ![b].doing = IF CurOp(b) = "io" THEN "io" ELSE "callback"]
    /\ UNCHANGED lockFrame

\* The callback or the I/O call returns; a false return of a callback marked
\* so is reported with ereport(ERROR).
OpEnd(b, ok) ==
    /\ be[b].doing # "none"
    /\ ok \/ CurOp(b) = "callback_or_error"
    /\ be' = IF ok THEN [be EXCEPT ![b].doing = "none", ![b].ip = @ + 1]
             ELSE ThrowError(b)
    /\ UNCHANGED lockFrame

\* A step on shared memory; one marked so can raise ERROR.
ShmemOp(b, ok) ==
    /\ CurOp(b) \in {"shmem", "shmem_or_error"}
    /\ ok \/ CurOp(b) = "shmem_or_error"
    /\ be' = IF ok THEN [be EXCEPT ![b].ip = @ + 1] ELSE ThrowError(b)
    /\ UNCHANGED lockFrame

NextLock ==
    \/ \E b \in Backends, prog \in LockProgs : LockStart(b, prog)
    \/ \E b \in Backends : LWLockAcquire(b)
    \/ \E b \in Backends : LWLockRelease(b)
    \/ \E b \in Backends : OpBegin(b)
    \/ \E b \in Backends, ok \in BOOLEAN : OpEnd(b, ok)
    \/ \E b \in Backends, ok \in BOOLEAN : ShmemOp(b, ok)

SpecLock == InitLock /\ [][NextLock]_vars

\* ------------------------------------------- registration of participants
\* The foreign tables of the model: relation 21 of server 1 without an owner,
\* relation 22 of server 1 owned by another user, relation 23 of server 2
\* owned by the session user.
Relations == {21, 22, 23}
GetForeignServerIdByRelId(relid) == IF relid = 23 THEN 2 ELSE 1
relowner(relid) ==
    CASE relid = 21 -> InvalidOid
      [] relid = 22 -> 20
      [] OTHER -> TheUser
GetUserId == TheUser

\* An FdwRoutine: for each callback, whether the FDW provides it (TRUE) or
\* leaves it NULL.
FdwRoutines ==
    [IsTwoPhaseCommitEnabled : BOOLEAN, PrepareForeignTransaction : BOOLEAN,
     CommitForeignTransaction : BOOLEAN, RollbackForeignTransaction : BOOLEAN]

\* Mutant: an FDW without IsTwoPhaseCommitEnabled is skipped without setting
\* XACT_FLAGS_FDWNOPREPARE.
register_fdw_xact_noflag(st, serverid, userid, modified) ==
    LET routine == st.routine[serverid]
        inTop == [st EXCEPT !.ctx = "TopTransactionContext"]
        found == {i \in 1..Len(st.part) :
                    /\ st.part[i].serverid = serverid
                    /\ st.part[i].userid = userid}
    IN IF ~routine.IsTwoPhaseCommitEnabled
       THEN inTop
       ELSE IF found # {}
       THEN LET i == CHOOSE k \in found : \A j \in found : k <= j
            IN [inTop EXCEPT !.part[i].modified = @ \/ modified]
       ELSE IF \/ ~routine.PrepareForeignTransaction
               \/ ~routine.CommitForeignTransaction
               \/ ~routine.RollbackForeignTransaction
       THEN [inTop EXCEPT !.err = "no function", !.pc = "abort"]
       ELSE [st EXCEPT !.part =
                Append(@, [serverid |-> serverid, userid |-> userid,
                           fdw_xact |-> NULL, modified |-> modified,
                           twophase_commit_enabled |-> TRUE])]

\* register_fdw_xact(serverid, userid, modified) on the state of a backend:
\* the memory context is switched to TopTransactionContext; an FDW without
\* IsTwoPhaseCommitEnabled sets XACT_FLAGS_FDWNOPREPARE and returns; a pair
\* already in FdwXactAtomicCommitParticipants gets modified OR-ed and the
\* function returns; otherwise a missing prepare, commit or rollback callback
\* is an ERROR, and else the participant is appended and the memory context
\* switched back.  The two early returns leave the context switched.
register_fdw_xact_call(st, serverid, userid, modified) ==
    LET routine == st.routine[serverid]
        inTop == [st EXCEPT !.ctx = "TopTransactionContext"]
        found == {i \in 1..Len(st.part) :
                    /\ st.part[i].serverid = serverid
                    /\ st.part[i].userid = userid}
    IN IF ~routine.IsTwoPhaseCommitEnabled
       THEN [inTop EXCEPT !.noprepare = TRUE]
       ELSE IF found # {}
       THEN LET i == CHOOSE k \in found : \A j \in found : k <= j
            IN [inTop EXCEPT !.part[i].modified = @ \/ modified]
       ELSE IF \/ ~routine.PrepareForeignTransaction
               \/ ~routine.CommitForeignTransaction
               \/ ~routine.RollbackForeignTransaction
       THEN [inTop EXCEPT !.err = "no function", !.pc = "abort"]
       ELSE [st EXCEPT !.part =
                Append(@, [serverid |-> serverid, userid |-> userid,
                           fdw_xact |-> NULL, modified |-> modified,
                           twophase_commit_enabled |-> TRUE])]

\* A transaction starts in a session whose servers have the FDW routines fdw;
\* the list is local to the backend, so one backend registers at a time.
\* The backend keeps the calls made so far and the last one (history).
BeginRegister(b, fdw) ==
    /\ ~inRecovery
    /\ \A c \in Backends : be[c].pc = "idle"
    /\ be' = [be EXCEPT ![b] =
                [pc |-> "register", xid |-> InvalidTransactionId, pidx |-> 0,
                 part |-> <<>>, fdwXactState |-> FDW_XACT_NOT_WAITING,
                 fdwXactWaitXid |-> InvalidTransactionId,
                 delayChkpt |-> FALSE, n_lefts |-> 0, cancelled |-> FALSE,
                 routine |-> fdw, ctx |-> "ExecutorState",
                 noprepare |-> FALSE, err |-> "none",
                 calls |-> {}, ncalls |-> 0, last |-> <<>>]]
    /\ UNCHANGED <<tblVars, walVars, recVars, lastErr, files, xactVars,
                   unresolvedXmin, queueVars, rs, fdwlog>>

\* One call of register_fdw_xact by the executor.
RegisterCall(b, serverid, userid, modified) ==
    /\ be[b].pc = "register"
    /\ be[b].ncalls < MaxRegCalls
    /\ be' = [be EXCEPT ![b] =
                [register_fdw_xact_call(be[b], serverid, userid, modified)
                   EXCEPT !.calls = @ \cup {<<serverid, userid, modified>>},
                          !.ncalls = @ + 1,
                          !.last = <<serverid, userid, modified>>]]
    /\ UNCHANGED <<tblVars, walVars, recVars, lastErr, files, xactVars,
                   unresolvedXmin, queueVars, rs, fdwlog>>

\* RegisterFdwXactByRelId: the server of the relation, and its owner or,
\* without one, the session user.
RegisterFdwXactByRelId(b, relid, modified) ==
    RegisterCall(b, GetForeignServerIdByRelId(relid),
                 IF relowner(relid) # InvalidOid THEN relowner(relid)
                                                 ELSE GetUserId,
                 modified)

\* RegisterFdwXactByServerId: the server and the session user.
RegisterFdwXactByServerId(b, serverid, modified) ==
    RegisterCall(b, serverid, GetUserId, modified)

\* The transaction ends, normally or after the ERROR: the participants are
\* forgotten.
EndRegister(b) ==
    /\ be[b].pc \in {"register", "abort"}
    /\ be' = [be EXCEPT ![b] = InitBackend]
    /\ UNCHANGED <<tblVars, walVars, recVars, lastErr, files, xactVars,
                   unresolvedXmin, queueVars, rs, fdwlog>>

NextRegister ==
    \/ \E b \in Backends, fdw \in [Servers -> FdwRoutines] : BeginRegister(b, fdw)
    \/ \E b \in Backends, relid \in Relations, modified \in BOOLEAN :
          RegisterFdwXactByRelId(b, relid, modified)
    \/ \E b \in Backends, serverid \in Servers, modified \in BOOLEAN :
          RegisterFdwXactByServerId(b, serverid, modified)
    \/ \E b \in Backends : EndRegister(b)

SpecRegister == Init /\ [][NextRegister]_vars

\* ------------------------------------ registration followed by pre-commit
\* The servers of a session that also uses server 3, whose FDW has no
\* IsTwoPhaseCommitEnabled; the FDWs of the other servers have it or not, and
\* every FDW has the three other callbacks.
ReqServers == Servers \cup {3}
ReqRoutines ==
    {r \in FdwRoutines : /\ r.PrepareForeignTransaction
                         /\ r.CommitForeignTransaction
                         /\ r.RollbackForeignTransaction}
ReqFdws ==
    {fdw \in [ReqServers -> ReqRoutines] : ~fdw[3].IsTwoPhaseCommitEnabled}

\* A transaction starts under a setting of distributed_atomic_commit, with
\* resolvers configured; wrote tells whether it writes a local relation.
BeginRequired(b, fdw, policy, wrote) ==
    /\ ~inRecovery
    /\ \A c \in Backends : be[c].pc = "idle"
    /\ nextXid < FirstNormalTransactionId + MaxCommitXacts
    /\ be' = [be EXCEPT ![b] =
                [pc |-> "register", xid |-> nextXid, pidx |-> 0,
                 part |-> <<>>, fdwXactState |-> FDW_XACT_NOT_WAITING,
                 fdwXactWaitXid |-> InvalidTransactionId,
                 delayChkpt |-> FALSE, n_lefts |-> 0, cancelled |-> FALSE,
                 routine |-> fdw, ctx |-> "ExecutorState",
                 noprepare |-> FALSE, err |-> "none",
                 calls |-> {}, ncalls |-> 0, last |-> <<>>,
                 policy |-> policy, resolvers |-> 1, wrote |-> wrote,
                 need |-> FALSE, freed |-> FALSE, regs |-> <<>>,
                 probed |-> [s \in Servers |-> "none"]]]
    /\ running' = running \cup {nextXid}
    /\ nextXid' = nextXid + 1
    /\ UNCHANGED <<tblVars, walVars, recVars, lastErr, files, clog,
                   unresolvedXmin, queueVars, rs, fdwlog>>

\* The transaction reaches its commit: PreCommit_FdwXacts is next.
CommitRequested(b) ==
    /\ be[b].pc = "register"
    /\ be' = [be EXCEPT ![b].pc = "precommit"]
    /\ UNCHANGED <<tblVars, walVars, recVars, lastErr, files, xactVars,
                   unresolvedXmin, queueVars, rs, fdwlog>>

\* The end of what is followed: the ERROR of PreCommit_FdwXacts, the commit
\* without a prepared participant, or the entry into
\* FdwXactPrepareForeignTransactions.
EndRequired(b) ==
    /\ be[b].pc \in {"abort", "commit1", "insert"}
    /\ running' = running \ {be[b].xid}
    /\ be' = [be EXCEPT ![b] = InitBackend]
    /\ UNCHANGED <<tblVars, walVars, recVars, lastErr, files, clog, nextXid,
                   unresolvedXmin, queueVars, rs, fdwlog>>

NextRequired ==
    \/ \E b \in Backends, fdw \in ReqFdws, policy \in Policies, wrote \in BOOLEAN :
          BeginRequired(b, fdw, policy, wrote)
    \/ \E b \in Backends, serverid \in ReqServers, modified \in BOOLEAN :
          RegisterFdwXactByServerId(b, serverid, modified)
    \/ \E b \in Backends : CommitRequested(b)
    \/ \E b \in Backends, probe \in [Servers -> BOOLEAN] : PreCommit_FdwXacts(b, probe)
    \/ \E b \in Backends, ret \in BOOLEAN : FdwXactCommitForeignTransaction(b, ret)
    \/ \E b \in Backends : KeepParticipant(b)
    \/ \E b \in Backends, ret \in BOOLEAN : PreCommitFinish(b, ret)
    \/ \E b \in Backends : EndRequired(b)

SpecRequired == Init /\ [][NextRequired]_vars

\* ------------------------------------- the resolver's fetch of a waiter
\* The databases of the waiting backends and of the resolvers.
FetchDbs == {1, 2}

\* The contents of the two queues: each backend is linked at most once.
FetchQueues ==
    {qs \in [active : UNION {[1..n -> Backends] : n \in 0..NumBackends},
             retry : UNION {[1..n -> Backends] : n \in 0..NumBackends}] :
        \A b \in Backends :
           Cardinality({i \in 1..Len(qs.active) : qs.active[i] = b})
             + Cardinality({i \in 1..Len(qs.retry) : qs.retry[i] = b}) <= 1}

\* SHMQueueNext(queue, queue, ...): the first element of the queue, NULL for
\* an empty queue.
SHMQueueNext_first(q) == IF q = <<>> THEN NULL ELSE Head(q)

\* Backends of any database wait on the queues; the resolver is idle.
InitFetch ==
    /\ slots = FdwXactShmemInit.slots
    /\ fdw_xacts = FdwXactShmemInit.arr
    /\ freeFdwXacts = FdwXactShmemInit.free
    /\ lastErr = [op |-> "none", key |-> <<>>, err |-> "none"]
    /\ files = {}
    /\ clog = [x \in Xids |-> "none"]
    /\ running = {}
    /\ unresolvedXmin = InvalidTransactionId
    /\ \E qs \in FetchQueues, db \in [Backends -> FetchDbs] :
          /\ activeQ = qs.active
          /\ retryQ = qs.retry
          /\ be = [b \in Backends |->
                     [pc |-> IF InQueue(qs.active, b) \/ InQueue(qs.retry, b)
                             THEN "waiting" ELSE "idle",
                      xid |-> InvalidTransactionId, part |-> <<>>, pidx |-> 0,
                      fdwXactState |->
                          IF InQueue(qs.active, b) THEN FDW_XACT_WAITING
                          ELSE IF InQueue(qs.retry, b) THEN FDW_XACT_WAITING_RETRY
                          ELSE FDW_XACT_NOT_WAITING,
                      fdwXactWaitXid |->
                          IF InQueue(qs.active, b) \/ InQueue(qs.retry, b)
                          THEN FirstNormalTransactionId ELSE InvalidTransactionId,
                      delayChkpt |-> FALSE, n_lefts |-> 0, cancelled |-> FALSE,
                      databaseId |-> db[b]]]
    /\ rs = [p \in ResolverProcs |-> InitResolver]
    /\ fdwlog = InitLog
    /\ ckpt = InitCkpt
    /\ lastRedo = 1
    /\ inRecovery = FALSE
    /\ wal = <<>>
    /\ walFlushed = 0
    /\ nextXid = FirstNormalTransactionId + 1
    /\ recov = InitRecov

\* FdwXactResolveDistributedTransaction(dbid, is_active): the target queue is
\* chosen and FdwXactLock taken in shared mode.
FetchStart(dbid, is_active) ==
    /\ rs["resolver"].pc = "idle"
    /\ rs' = [rs EXCEPT !["resolver"] =
                [pc |-> "fetch", caller |-> IF is_active THEN "active" ELSE "retry",
                 waiter |-> NULL, participants |-> <<>>, idx |-> 0,
                 fdwxact |-> NULL, state |-> <<>>, is_commit |-> FALSE,
                 ret |-> FALSE, dbid |-> dbid, lock |-> "shared"]]
    /\ UNCHANGED <<tblVars, walVars, recVars, lastErr, files, xactVars,
                   unresolvedXmin, queueVars, be, fdwlog>>

\* One evaluation of the while condition and of the loop body: the loop ends
\* with no waiter when SHMQueueNext returns NULL, which releases the lock and
\* returns false; it breaks at a waiter of dbid; otherwise the condition is
\* evaluated again, on the same arguments.
FetchWaiter ==
    /\ rs["resolver"].pc = "fetch"
    /\ LET r == rs["resolver"]
           waiter == SHMQueueNext_first(IF r.caller = "active" THEN activeQ ELSE retryQ)
       IN rs' = IF waiter = NULL
                THEN [rs EXCEPT !["resolver"].pc = "returned",
                                !["resolver"].ret = FALSE,
                                !["resolver"].lock = "none"]
                ELSE IF be[waiter].databaseId = r.dbid
                THEN [rs EXCEPT !["resolver"].pc = "selected",
                                !["resolver"].waiter = waiter]
                ELSE rs
    /\ UNCHANGED <<tblVars, walVars, recVars, lastErr, files, xactVars,
                   unresolvedXmin, queueVars, be, fdwlog>>

\* The function is left: after the return of false, or (the resolution of
\* the waiter's entries is not followed here) after its last locked section.
FetchDone ==
    /\ rs["resolver"].pc \in {"returned", "selected"}
    /\ rs' = [rs EXCEPT !["resolver"] = InitResolver]
    /\ UNCHANGED <<tblVars, walVars, recVars, lastErr, files, xactVars,
                   unresolvedXmin, queueVars, be, fdwlog>>

NextFetch ==
    \/ \E dbid \in FetchDbs, is_active \in BOOLEAN : FetchStart(dbid, is_active)
    \/ FetchWaiter
    \/ FetchDone

\* The resolver process runs: its steps are taken when they are possible.
SpecFetch == InitFetch /\ [][NextFetch]_vars /\ WF_vars(NextFetch)

\* --------------------------------- the connection cache of postgres_fdw
\* One backend's cache entry for one user mapping is followed, in be[1]: the
\* fields of ConnCacheEntry, the state of the PGconn (status is PQstatus,
\* trans is PQtransactionStatus), the position and nest level of the local
\* transaction, and history: raised (the last call ended with an ERROR),
\* call (the function called last), incomplete (a transaction-state change of
\* the connection did not complete), misused (a command was sent on such a
\* connection) and cleaned (the last call ended with
\* pgfdw_cleanup_after_transaction).
ConnBackend == CHOOSE b \in Backends : \A c \in Backends : b <= c

\* The results of a command: done, an error result, or the connection lost
\* (the command cannot be sent or its result cannot be read).
CmdResults == {"ok", "error", "lost"}
\* The results of a cancel or cleanup query: done, an error result, or
\* failed (it cannot be sent or passes its deadline of 30 s).
CleanupResults == {"ok", "error", "fail"}
\* PQtransactionStatus after a query of the executor.
QueryStates == {"intrans", "active", "inerror"}

\* PQsendQuery and the wait for the result, on the connection of the entry:
\* the transaction status after the command is ok_trans for a command that is
\* done and err_trans for an error result.
SendCommand(e, res, ok_trans, err_trans) ==
    [e EXCEPT !.misused = @ \/ e.incomplete,
              !.status = IF res \in {"lost", "fail"} THEN "bad" ELSE @,
              !.trans = IF res = "ok" THEN ok_trans
                        ELSE IF res = "error" THEN err_trans ELSE @]

\* ereport(ERROR): the call is left; an ERROR while changing_xact_state is
\* true leaves the state change of the connection incomplete.
RaiseConnError(e) ==
    [e EXCEPT !.raised = TRUE,
              !.incomplete = @ \/ (e.conn # NULL /\ e.changing_xact_state)]

\* disconnect_pg_server: PQfinish and conn = NULL.
disconnect_pg_server(e) ==
    IF e.conn # NULL
    THEN [e EXCEPT !.conn = NULL, !.status = "ok", !.trans = "idle",
                   !.incomplete = FALSE]
    ELSE e

\* do_sql_command: any result but PGRES_COMMAND_OK is an ERROR.
do_sql_command(e, res, ok_trans) ==
    LET s == SendCommand(e, res, ok_trans, "inerror")
    IN IF res = "ok" THEN s ELSE RaiseConnError(s)

\* pgfdw_reject_incomplete_xact_state_change: an entry with a connection and
\* changing_xact_state set is disconnected, with the ERROR "connection to
\* server was lost".
pgfdw_reject_incomplete_xact_state_change(e) ==
    IF e.conn = NULL \/ ~e.changing_xact_state THEN e
    ELSE RaiseConnError(disconnect_pg_server(e))

\* begin_remote_xact's loop: SAVEPOINT s<d> for every level up to the current
\* nest level; rsp[d] is the result of SAVEPOINT s<d>.
RECURSIVE SavepointLoop(_, _)
SavepointLoop(e, rsp) ==
    IF e.xact_depth >= e.level THEN e
    ELSE LET c == do_sql_command([e EXCEPT !.changing_xact_state = TRUE],
                                 rsp[e.xact_depth + 1], "intrans")
         IN IF c.raised THEN c
            ELSE SavepointLoop([c EXCEPT !.xact_depth = @ + 1,
                                         !.changing_xact_state = FALSE], rsp)

\* begin_remote_xact: START TRANSACTION when no remote transaction is open
\* (r1 is its result), then the savepoints.
begin_remote_xact(e, r1, rsp) ==
    LET a == IF e.xact_depth <= 0
             THEN LET c == do_sql_command([e EXCEPT !.changing_xact_state = TRUE],
                                          r1, "intrans")
                  IN IF c.raised THEN c
                     ELSE [c EXCEPT !.xact_depth = 1, !.changing_xact_state = FALSE]
             ELSE e
    IN IF a.raised THEN a ELSE SavepointLoop(a, rsp)

\* GetConnectionState(umid, will_prep_stmt, start_transaction): rc is the
\* result of connect_pg_server, which raises an ERROR when it fails.
GetConnectionState(e, will_prep_stmt, start_transaction, rc, r1, rsp) ==
    LET a == pgfdw_reject_incomplete_xact_state_change(e)
        b == IF a.conn # NULL /\ a.invalidated /\ a.xact_depth = 0
             THEN disconnect_pg_server(a) ELSE a
        c == IF b.conn # NULL THEN b
             ELSE LET n == [b EXCEPT !.xact_depth = 0, !.have_prep_stmt = FALSE,
                                     !.have_error = FALSE,
                                     !.changing_xact_state = FALSE,
                                     !.invalidated = FALSE,
                                     !.xact_got_connection = FALSE]
                  IN IF rc = "ok"
                     THEN [n EXCEPT !.conn = 1, !.status = "ok", !.trans = "idle"]
                     ELSE RaiseConnError(n)
        d == IF ~start_transaction THEN c
             ELSE LET s == begin_remote_xact(c, r1, rsp)
                  IN IF s.raised THEN s
                     ELSE [s EXCEPT !.xact_got_connection = TRUE]
    IN IF a.raised THEN a
       ELSE IF c.raised THEN c
       ELSE IF d.raised THEN d
       ELSE [d EXCEPT !.have_prep_stmt = @ \/ will_prep_stmt]

\* pgfdw_cancel_query and the cleanup queries of abort: whether abort cleanup
\* failed, and the entry after the commands that were sent.  The cancel is
\* requested for a connection with a query in progress; a cleanup query that
\* returns an error counts as done only when its errors are ignored.
AbortCleanup(e, rcancel, rclean, rdealloc, dealloc) ==
    IF e.trans = "active" /\ rcancel # "ok"
    THEN [failure |-> TRUE, e |-> SendCommand(e, "fail", e.trans, e.trans)]
    ELSE LET a == IF e.trans = "active" THEN SendCommand(e, "ok", "inerror", "inerror")
                  ELSE e
             b == SendCommand(a, rclean, IF dealloc THEN "idle" ELSE "intrans", "inerror")
         IN IF rclean # "ok" THEN [failure |-> TRUE, e |-> b]
            ELSE IF dealloc /\ b.have_prep_stmt /\ b.have_error
            THEN [failure |-> rdealloc = "fail",
                  e |-> SendCommand(b, rdealloc, "idle", "idle")]
            ELSE [failure |-> FALSE, e |-> b]

\* pgfdw_subxact_callback for the entry, at the current nest level; trouble is
\* in_error_recursion_trouble().
pgfdw_subxact_callback(e, event, trouble, res, rcancel, rclean) ==
    IF ~e.xact_got_connection THEN e
    ELSE IF e.conn = NULL \/ e.xact_depth < e.level THEN e
    ELSE IF e.xact_depth > e.level THEN RaiseConnError(e)
    ELSE LET body ==
               IF event = "SUBXACT_EVENT_PRE_COMMIT_SUB"
               THEN LET a == pgfdw_reject_incomplete_xact_state_change(e)
                    IN IF a.raised THEN a
                       ELSE LET c == do_sql_command(
                                        [a EXCEPT !.changing_xact_state = TRUE],
                                        res, "intrans")
                            IN IF c.raised THEN c
                               ELSE [c EXCEPT !.changing_xact_state = FALSE]
               ELSE IF trouble THEN [e EXCEPT !.changing_xact_state = TRUE]
               ELSE IF ~e.changing_xact_state
               THEN LET r == AbortCleanup([e EXCEPT !.changing_xact_state = TRUE,
                                                    !.have_error = TRUE],
                                          rcancel, rclean, "ok", FALSE)
                    IN [r.e EXCEPT !.changing_xact_state = r.failure,
                                   !.incomplete = @ \/ r.failure]
               ELSE e
         IN IF body.raised THEN body
            ELSE [body EXCEPT !.xact_depth = @ - 1]

\* Mutant: the connection is kept whatever its state.
pgfdw_cleanup_after_transaction_keep(e) ==
    [e EXCEPT !.xact_depth = 0, !.have_prep_stmt = FALSE, !.have_error = FALSE,
              !.xact_got_connection = FALSE, !.changing_xact_state = FALSE,
              !.cleaned = TRUE]

\* pgfdw_cleanup_after_transaction: the entry is reset, and a connection that
\* is not CONNECTION_OK and PQTRANS_IDLE, or whose entry has
\* changing_xact_state set, is discarded.
pgfdw_cleanup_after_transaction(e) ==
    LET a == [e EXCEPT !.xact_depth = 0, !.have_prep_stmt = FALSE,
                       !.have_error = FALSE, !.xact_got_connection = FALSE]
        b == IF \/ a.conn = NULL \/ a.status # "ok" \/ a.trans # "idle"
                \/ a.changing_xact_state
             THEN disconnect_pg_server(a) ELSE a
    IN [b EXCEPT !.changing_xact_state = FALSE, !.cleaned = TRUE]

\* The command that ends the remote transaction, as postgresPrepareForeign-
\* Transaction and the one-phase postgresCommitForeignTransaction send it:
\* changing_xact_state is set around pgfdw_exec_query, which raises an ERROR
\* when the connection is lost; an error result is an ERROR raised after the
\* flag was cleared; then DEALLOCATE ALL when needed, whose result is
\* ignored, and the cleanup.
EndRemoteXact(e, res, rdealloc) ==
    LET a == pgfdw_reject_incomplete_xact_state_change(e)
        s == SendCommand([a EXCEPT !.changing_xact_state = TRUE], res, "idle", "idle")
    IN IF a.raised THEN a
       ELSE IF res = "lost" THEN RaiseConnError(s)
       ELSE IF res # "ok" THEN RaiseConnError([s EXCEPT !.changing_xact_state = FALSE])
       ELSE LET c == [s EXCEPT !.changing_xact_state = FALSE]
                d == IF c.have_prep_stmt /\ c.have_error
                     THEN SendCommand(c, rdealloc, "idle", "idle") ELSE c
            IN pgfdw_cleanup_after_transaction(d)

\* postgresPrepareForeignTransaction.
postgresPrepareForeignTransaction(e, res, rdealloc) == EndRemoteXact(e, res, rdealloc)

\* pgfdw_end_prepared_xact: COMMIT PREPARED or ROLLBACK PREPARED; an error
\* result other than undefined-object is an ERROR.
pgfdw_end_prepared_xact(e, res, undefined_object) ==
    LET s == SendCommand(e, res, "idle", "idle")
    IN IF res = "lost" THEN RaiseConnError(s)
       ELSE IF res = "error" /\ ~undefined_object THEN RaiseConnError(s)
       ELSE pgfdw_cleanup_after_transaction(s)

\* postgresCommitForeignTransaction: of a prepared transaction over a
\* connection that GetConnectionState provides, or in one phase over the
\* connection of the transaction.
postgresCommitForeignTransaction(e, is_onephase, rc, res, rdealloc, undefined_object) ==
    IF ~is_onephase
    THEN LET a == GetConnectionState(e, FALSE, FALSE, rc, "ok", <<>>)
         IN IF a.raised THEN a ELSE pgfdw_end_prepared_xact(a, res, undefined_object)
    ELSE IF e.conn = NULL \/ ~e.xact_got_connection THEN e
    ELSE EndRemoteXact(e, res, rdealloc)

\* postgresRollbackForeignTransaction: of a prepared transaction, or in one
\* phase with the abort cleanup.
postgresRollbackForeignTransaction(e, is_onephase, rc, res, undefined_object, trouble, rcancel, rclean, rdealloc) ==
    IF ~is_onephase
    THEN LET a == GetConnectionState(e, FALSE, FALSE, rc, "ok", <<>>)
         IN IF a.raised THEN a ELSE pgfdw_end_prepared_xact(a, res, undefined_object)
    ELSE IF e.conn = NULL \/ ~e.xact_got_connection
    THEN pgfdw_cleanup_after_transaction(e)
    ELSE LET a == IF trouble THEN [e EXCEPT !.changing_xact_state = TRUE] ELSE e
         IN IF a.changing_xact_state \/ ~a.xact_got_connection
            THEN pgfdw_cleanup_after_transaction(a)
            ELSE LET r == AbortCleanup([a EXCEPT !.changing_xact_state = TRUE,
                                                 !.have_error = TRUE],
                                       rcancel, rclean, rdealloc, TRUE)
                 IN pgfdw_cleanup_after_transaction(
                        [r.e EXCEPT !.changing_xact_state = r.failure,
                                    !.incomplete = @ \/ r.failure])

\* The entry hash_search creates: conn is cleared and the other fields are
\* not initialised.
NewConnEntries ==
    [pc : {"idle"}, level : {1}, conn : {NULL}, status : {"ok"}, trans : {"idle"},
     xact_depth : 0..MaxNestLevel, have_prep_stmt : BOOLEAN, have_error : BOOLEAN,
     changing_xact_state : BOOLEAN, invalidated : BOOLEAN,
     xact_got_connection : BOOLEAN,
     raised : {FALSE}, incomplete : {FALSE}, misused : {FALSE}, cleaned : {FALSE},
     call : {"none"}]

InitConn ==
    /\ slots = FdwXactShmemInit.slots
    /\ fdw_xacts = FdwXactShmemInit.arr
    /\ freeFdwXacts = FdwXactShmemInit.free
    /\ lastErr = [op |-> "none", key |-> <<>>, err |-> "none"]
    /\ files = {}
    /\ clog = [x \in Xids |-> "none"]
    /\ running = {}
    /\ unresolvedXmin = InvalidTransactionId
    /\ \E e \in NewConnEntries :
          be = [b \in Backends |-> IF b = ConnBackend THEN e ELSE InitBackend]
    /\ activeQ = <<>>
    /\ retryQ = <<>>
    /\ rs = [p \in ResolverProcs |-> InitResolver]
    /\ fdwlog = InitLog
    /\ ckpt = InitCkpt
    /\ lastRedo = 1
    /\ inRecovery = FALSE
    /\ wal = <<>>
    /\ walFlushed = 0
    /\ nextXid = FirstNormalTransactionId
    /\ recov = InitRecov

\* The entry at the start of a call, and the backend after it: an ERROR makes
\* the local transaction fail.
Entry == [be[ConnBackend] EXCEPT !.raised = FALSE, !.cleaned = FALSE]
ConnResult(e, pc, call) ==
    /\ be' = [be EXCEPT ![ConnBackend] =
                [e EXCEPT !.pc = IF e.raised /\ be[ConnBackend].pc # "idle"
                                 THEN "failed" ELSE pc,
                          !.call = call]]
    /\ UNCHANGED <<tblVars, walVars, recVars, lastErr, files, xactVars,
                   unresolvedXmin, queueVars, rs, fdwlog>>

\* A local transaction starts.
ConnBeginXact ==
    /\ be[ConnBackend].pc = "idle"
    /\ ConnResult(Entry, "inxact", "none")

\* A subtransaction starts.
ConnBeginSubXact ==
    /\ be[ConnBackend].pc = "inxact"
    /\ be[ConnBackend].level < MaxNestLevel
    /\ ConnResult([Entry EXCEPT !.level = @ + 1], "inxact", "none")

\* GetConnection by the executor, and the query it then sends on the
\* connection, which leaves the connection in state q or loses it.
GetConnection(will_prep_stmt, rc, r1, rsp, q, lost) ==
    /\ be[ConnBackend].pc = "inxact"
    /\ LET e == GetConnectionState(Entry, will_prep_stmt, TRUE, rc, r1, rsp)
       IN ConnResult(IF e.raised THEN e
                     ELSE IF lost THEN RaiseConnError(SendCommand(e, "lost", q, q))
                     ELSE SendCommand(e, "ok", q, q),
                     "inxact", "GetConnectionState")

\* The subtransaction commits or aborts: the callback, then the nest level
\* drops; after an abort the transaction goes on or stays failed.
ConnEndSubXact(event, trouble, res, rcancel, rclean, goes_on) ==
    /\ be[ConnBackend].level > 1
    /\ IF event = "SUBXACT_EVENT_PRE_COMMIT_SUB"
       THEN be[ConnBackend].pc = "inxact"
       ELSE be[ConnBackend].pc \in {"inxact", "failed"}
    /\ LET e == pgfdw_subxact_callback(Entry, event, trouble, res, rcancel, rclean)
       IN ConnResult(IF e.raised THEN e ELSE [e EXCEPT !.level = @ - 1],
                     IF event = "SUBXACT_EVENT_ABORT_SUB" /\ ~goes_on
                     THEN "failed" ELSE "inxact",
                     "pgfdw_subxact_callback")

\* pgfdw_inval_callback: the connection is to be remade.
ConnInvalidate ==
    /\ be[ConnBackend].conn # NULL
    /\ ~be[ConnBackend].invalidated
    /\ ConnResult([Entry EXCEPT !.invalidated = TRUE], be[ConnBackend].pc, "none")

\* The commit of the top-level transaction prepares the remote transaction.
ConnPrepare(res, rdealloc) ==
    /\ be[ConnBackend].pc = "inxact"
    /\ be[ConnBackend].level = 1
    /\ be[ConnBackend].xact_got_connection
    /\ be[ConnBackend].conn # NULL
    /\ ConnResult(postgresPrepareForeignTransaction(Entry, res, rdealloc), "idle",
                  "postgresPrepareForeignTransaction")

\* The commit of the top-level transaction commits the remote one in one
\* phase.
ConnCommit(res, rdealloc) ==
    /\ be[ConnBackend].pc = "inxact"
    /\ be[ConnBackend].level = 1
    /\ ConnResult(postgresCommitForeignTransaction(Entry, TRUE, "ok", res, rdealloc, FALSE),
                  "idle", "postgresCommitForeignTransaction")

\* The abort of the top-level transaction.
ConnRollback(trouble, rcancel, rclean, rdealloc) ==
    /\ be[ConnBackend].pc \in {"inxact", "failed"}
    /\ be[ConnBackend].level = 1
    /\ ConnResult([postgresRollbackForeignTransaction(Entry, TRUE, "ok", "ok", FALSE,
                                                     trouble, rcancel, rclean, rdealloc)
                     EXCEPT !.raised = FALSE],
                  "idle", "postgresRollbackForeignTransaction")

\* The top-level transaction ends without a call for this server, which was
\* not registered as a participant.
ConnEndXactUncalled ==
    /\ be[ConnBackend].pc \in {"inxact", "failed"}
    /\ be[ConnBackend].level = 1
    /\ ConnResult(Entry, "idle", "none")

\* The resolution of a prepared transaction between two local transactions.
ConnResolve(is_commit, rc, res, undefined_object) ==
    /\ be[ConnBackend].pc = "idle"
    /\ ConnResult(IF is_commit
                  THEN postgresCommitForeignTransaction(Entry, FALSE, rc, res, "ok",
                                                        undefined_object)
                  ELSE postgresRollbackForeignTransaction(Entry, FALSE, rc, res,
                                                          undefined_object, FALSE,
                                                          "ok", "ok", "ok"),
                  "idle", "resolve")

NextConn ==
    \/ ConnBeginXact
    \/ ConnBeginSubXact
    \/ \E will_prep_stmt \in BOOLEAN, rc \in {"ok", "error"}, r1 \in CmdResults,
          rsp \in [2..MaxNestLevel -> CmdResults], q \in QueryStates, lost \in BOOLEAN :
            GetConnection(will_prep_stmt, rc, r1, rsp, q, lost)
    \/ \E event \in {"SUBXACT_EVENT_PRE_COMMIT_SUB", "SUBXACT_EVENT_ABORT_SUB"},
          trouble \in BOOLEAN, res \in CmdResults, rcancel \in {"ok", "fail"},
          rclean \in CleanupResults, goes_on \in BOOLEAN :
            ConnEndSubXact(event, trouble, res, rcancel, rclean, goes_on)
    \/ ConnInvalidate
    \/ \E res \in CmdResults, rdealloc \in CmdResults : ConnPrepare(res, rdealloc)
    \/ \E res \in CmdResults, rdealloc \in CmdResults : ConnCommit(res, rdealloc)
    \/ \E trouble \in BOOLEAN, rcancel \in {"ok", "fail"}, rclean \in CleanupResults,
          rdealloc \in CleanupResults : ConnRollback(trouble, rcancel, rclean, rdealloc)
    \/ ConnEndXactUncalled
    \/ \E is_commit \in BOOLEAN, rc \in {"ok", "error"}, res \in CmdResults,
          undefined_object \in BOOLEAN : ConnResolve(is_commit, rc, res, undefined_object)

SpecConn == InitConn /\ [][NextConn]_vars

\* ----------------------------------------------------- the happy path
\* The participant lists of the happy path: both servers, each modified.
HappyRegs ==
    {q \in RegLists : Len(q) = 2 /\ q[1].modified /\ q[2].modified}

\* A transaction that modified both servers starts its commit under policy
\* prefer with a resolver configured, while no other backend is in a
\* transaction, so that the capacity of the table is never reached.
HappyBegin(b, regs, wrote) ==
    /\ \A c \in Backends : be[c].pc = "idle"
    /\ register_fdw_xact(b, regs, DISTRIBUTED_ATOMIC_COMMIT_PREFER, 1, wrote, FALSE)

\* The steps of a backend whose servers are all capable of two-phase commit
\* and whose prepare callbacks succeed.
HappyBackendStep ==
    \E b \in Backends :
        \/ PreCommit_FdwXacts(b, [s \in Servers |-> TRUE])
        \/ KeepParticipant(b)
        \/ PreCommitFinish(b, TRUE)
        \/ InsertEntry(b)
        \/ XLogInsertEntry(b)
        \/ SetValid(b)
        \/ CallPrepare(b, TRUE)
        \/ MarkPrepared(b)
        \/ LocalCommit(b)
        \/ WaitEnter(b)
        \/ WaitReturn(b)
        \/ ForgetAllFdwXactParticipants(b)
        \/ EndXact(b)

\* The steps of the resolver when the resolve callbacks succeed.
HappyResolverStep ==
    \/ StartDistributed("resolver", TRUE)
    \/ Decide1("resolver")
    \/ CallResolve("resolver", TRUE)
    \/ RemoveResolved("resolver")
    \/ FinishDistributed("resolver")

NextHappy ==
    \/ \E b \in Backends, regs \in HappyRegs, wrote \in BOOLEAN :
          HappyBegin(b, regs, wrote)
    \/ HappyBackendStep
    \/ HappyResolverStep

\* The backend and the resolver keep running.
SpecHappy ==
    /\ Init
    /\ [][NextHappy]_vars
    /\ WF_vars(HappyBackendStep)
    /\ WF_vars(HappyResolverStep)

\* ------------------------------------------- startup over any directory
\* The records the WAL may hold after the redo horizon.
StartRecords ==
    {InsertRecord(k[1], k[2], k[3], k[4], UserMappingId(k[3], k[4]),
                  GenId(k[2], k[3], k[4])) : k \in RedoKeys}
      \cup {RemoveRecord([dbid |-> k[1], local_xid |-> k[2], serverid |-> k[3],
                          userid |-> k[4]]) : k \in RedoKeys}

\* The files pg_fdw_xact may hold under the name of key k at startup: the
\* file a checkpoint wrote, that file with a wrong CRC, truncated or with a
\* length that is not aligned, and a file whose header is of another key.
StartFiles(k) ==
    LET good == RecreateFdwXactFile(k[1], k[2], k[3], k[4],
                    InsertRecord(k[1], k[2], k[3], k[4], UserMappingId(k[3], k[4]),
                                 GenId(k[2], k[3], k[4])))
    IN {good,
        [good EXCEPT !.crc = <<"crc">>],
        [good EXCEPT !.size = "truncated"],
        [good EXCEPT !.size = "misaligned"]}
       \cup {[good EXCEPT !.hdr = o,
                          !.crc = COMP_CRC32C(o, good.umid, good.fdw_xact_id)] :
               o \in RedoKeys \ {k}}

\* The server starts recovery with any directory, holding at most one file
\* per name, any records to replay, and nextXid past some or all of the xids.
InitStartup ==
    /\ slots = FdwXactShmemInit.slots
    /\ fdw_xacts = FdwXactShmemInit.arr
    /\ freeFdwXacts = FdwXactShmemInit.free
    /\ lastErr = [op |-> "none", key |-> <<>>, err |-> "none"]
    /\ \E ks \in SUBSET RedoKeys :
          \E pick \in [ks -> UNION {StartFiles(k) : k \in RedoKeys}] :
             /\ \A k \in ks : pick[k] \in StartFiles(k)
             /\ files = {pick[k] : k \in ks}
    /\ clog = [x \in Xids |-> "none"]
    /\ running = {}
    /\ unresolvedXmin = InvalidTransactionId
    /\ be = [b \in Backends |-> InitBackend]
    /\ activeQ = <<>>
    /\ retryQ = <<>>
    /\ rs = [p \in ResolverProcs |-> InitResolver]
    /\ fdwlog = InitLog
    /\ ckpt = InitCkpt
    /\ lastRedo = 1
    /\ inRecovery = TRUE
    /\ \E n \in 0..MaxStartWal : wal \in [1..n -> StartRecords]
    /\ walFlushed = Len(wal)
    /\ nextXid \in {FirstNormalTransactionId + 1, FirstNormalTransactionId + MaxXacts}
    /\ recov = [pc |-> "prescan", pos |-> 1, crashes |-> MaxCrashes, dir |-> files]

\* PrescanFdwXacts: the files of a future xid are removed.
PrescanFdwXacts ==
    /\ recov.pc = "prescan"
    /\ files' = {f \in files : ~TransactionIdFollowsOrEquals(f.xid, nextXid)}
    /\ recov' = [recov EXCEPT !.pc = "restore"]
    /\ UNCHANGED <<tblVars, walVars, inRecovery, ckpt, lastRedo, lastErr, xactVars,
                   unresolvedXmin, be, queueVars, rs, fdwlog>>

NextStartup ==
    \/ PrescanFdwXacts
    \/ restoreFdwXactData
    \/ RedoRecord
    \/ RecoverFdwXacts

SpecStartup == InitStartup /\ [][NextStartup]_vars

\* ------------------------------------------------------------ claims
KeyPresent(key) == \E i \in 1..Len(fdw_xacts) : KeyOf(slots[fdw_xacts[i]]) = key

UniqueKeys ==
    \A i, j \in 1..Len(fdw_xacts) :
        i # j => KeyOf(slots[fdw_xacts[i]]) # KeyOf(slots[fdw_xacts[j]])

\* C6: no two entries of the table have the same key (dbid, localXid,
\* serverId, userId), and an insert whose key is already present fails with
\* the duplicate error and leaves the active array, the free list and
\* numFdwXacts (and all slots) unchanged.
C6_UniqueKeys ==
    /\ []UniqueKeys
    /\ [][(lastErr'.op = "insert" /\ KeyPresent(lastErr'.key))
            => (lastErr'.err = "duplicate" /\ UNCHANGED tblVars)]_vars

\* C6 witness: a duplicate insert was attempted and refused.
C6_Witness == lastErr.op = "insert" /\ lastErr.err = "duplicate"

OnFree(s) == \E i \in 1..Len(freeFdwXacts) : freeFdwXacts[i] = s
OnActive(s) == \E i \in 1..Len(fdw_xacts) : fdw_xacts[i] = s
Occurrences(q, s) == Cardinality({i \in 1..Len(q) : q[i] = s})

PoolPartition ==
    /\ numFdwXacts <= MaxPrepared
    /\ \A s \in Slots : Occurrences(fdw_xacts, s) + Occurrences(freeFdwXacts, s) = 1

\* C7: numFdwXacts never exceeds max_prepared_foreign_xacts, every slot is on
\* exactly one of the free list and the active array, and an insert attempted
\* when no slot is free fails with an error and leaves the table unchanged.
C7_Capacity ==
    /\ []PoolPartition
    /\ [][(lastErr'.op = "insert" /\ freeFdwXacts = <<>>)
            => (lastErr'.err # "none" /\ UNCHANGED tblVars)]_vars

\* C7 witness: an insert was refused because the pool was full.
C7_Witness ==
    lastErr.op = "insert" /\ lastErr.err = "full" /\ numFdwXacts = MaxPrepared

\* ------------------------------------------------------------ C1
EntriesOnArray == {fdw_xacts[i] : i \in 1..Len(fdw_xacts)}

\* C1: whenever a backend is about to call the prepare callback for a
\* participant, the participant's entry is on the active array with the
\* participant's key, its status is Preparing, it is valid, and the INSERT
\* record of that key lies in the flushed part of the WAL.
C1_PrepareAfterDurableInsert ==
    \A b \in Backends :
        be[b].pc = "prepare" =>
            LET p == CurPart(b)
                key == <<MyDatabaseId(b), be[b].xid, p.serverid, p.userid>>
            IN /\ p.fdw_xact \in EntriesOnArray
               /\ KeyOf(slots[p.fdw_xact]) = key
               /\ slots[p.fdw_xact].status = FDW_XACT_PREPARING
               /\ slots[p.fdw_xact].valid
               /\ \E i \in 1..walFlushed :
                     /\ wal[i].type = "INSERT"
                     /\ KeyOf([dbid |-> wal[i].dbid, local_xid |-> wal[i].xid,
                               serverid |-> wal[i].serverid,
                               userid |-> wal[i].userid]) = key

\* The prepare callback has returned true for a second participant.
C1_Witness ==
    \E b \in Backends : be[b].pc = "mark" /\ be[b].pidx = 2

\* ------------------------------------------------------------ C2
\* C2 as stated: resolve is about to be called with isCommit=true only for an
\* entry that is CommittingPrepared or whose local transaction committed, and
\* with isCommit=false only for an entry that is AbortingPrepared or whose
\* local transaction aborted or is neither in progress nor has an outcome; no
\* transaction that did not commit was resolved with true; and no local xid
\* was resolved with both values.
C2_OutcomeMatchesLocal ==
    /\ \A p \in ResolverProcs :
          rs[p].pc = "call" =>
             LET e == slots[rs[p].fdwxact]
                 x == rs[p].state[2]
             IN /\ rs[p].is_commit =>
                      \/ e.status = FDW_XACT_COMMITTING_PREPARED
                      \/ clog[x] = "committed"
                /\ ~rs[p].is_commit =>
                      \/ e.status = FDW_XACT_ABORTING_PREPARED
                      \/ clog[x] = "aborted"
                      \/ (x \notin running /\ clog[x] = "none")
    /\ \A x \in Xids :
          /\ TRUE \in fdwlog.resolvedAs[x] => clog[x] = "committed"
          /\ Cardinality(fdwlog.resolvedAs[x]) <= 1

\* ------------------------------------------------------------ C3
\* C3 as stated: the locked section that ends a resolution changes the
\* table, the WAL and the spill files only when resolve returned true.
C3_RemovedOnlyIfResolved ==
    [][\A p \in ResolverProcs :
          (rs[p].pc = "remove" /\ rs'[p] # rs[p] /\ ~rs[p].ret)
             => (fdw_xacts' = fdw_xacts /\ wal' = wal /\ files' = files)]_vars

\* ------------------------------------------------------------ C4
\* C4 as stated: a backend whose state is WaitComplete has no entry of its
\* database and current waitXid left in the table.
C4_CompleteMeansResolved ==
    \A b \in Backends :
        be[b].fdwXactState = FDW_XACT_WAIT_COMPLETE =>
            ~\E s \in EntriesOnArray :
                /\ slots[s].dbid = MyDatabaseId(b)
                /\ slots[s].local_xid = be[b].fdwXactWaitXid

\* ------------------------------------------------------------ C5
CancelStep(b) ==
    be[b].pc = "waiting" /\ be'[b].pc = "forget" /\ be'[b].cancelled

ForgetAfterCancelStep(b) ==
    be[b].pc = "forget" /\ be[b].cancelled /\ be'[b].pc # "forget"

\* C5: the step that cancels a wait leaves the backend in no queue with state
\* NotWaiting, keeps the local transaction committed, removes no entry,
\* writes nothing and calls no FDW callback; the forget step that follows
\* removes no entry either and leaves no entry of the table held by the
\* backend.
C5_CancelDetachesOnly ==
    /\ [][\A b \in Backends : CancelStep(b) =>
             /\ ~InQueue(activeQ', b) /\ ~InQueue(retryQ', b)
             /\ be'[b].fdwXactState = FDW_XACT_NOT_WAITING
             /\ clog'[be[b].xid] = "committed"
             /\ UNCHANGED <<tblVars, walVars, files, fdwlog>>]_vars
    /\ [][\A b \in Backends : ForgetAfterCancelStep(b) =>
             /\ clog'[be[b].xid] = "committed"
             /\ UNCHANGED <<fdw_xacts, freeFdwXacts, walVars, files, fdwlog>>
             /\ \A s \in EntriesOnArray :
                   /\ slots'[s].held_by # b
                   /\ KeyOf(slots'[s]) = KeyOf(slots[s])
                   /\ slots'[s].status = slots[s].status]_vars

\* A cancelled backend has forgotten its participants and an entry of its
\* transaction is still in the table, held by nobody.
C5_Witness ==
    \E b \in Backends :
        /\ be[b].cancelled
        /\ be[b].pc \in {"xmin", "end"}
        /\ \E s \in EntriesOnArray :
              /\ slots[s].local_xid = be[b].xid
              /\ slots[s].held_by = InvalidBackendId

\* ------------------------------------------------------------ C8
\* C8 as stated: the published oldest-unresolved xmin is a valid xid that
\* does not follow the local xid of any valid entry of the table.
C8_XminCoversEntries ==
    \A s \in EntriesOnArray :
        slots[s].valid =>
            /\ unresolvedXmin # InvalidTransactionId
            /\ ~TransactionIdPrecedes(slots[s].local_xid, unresolvedXmin)

\* ------------------------------------------------------------ C9
\* The keys for which prepare returned true and resolve has not yet.
PreparedUnresolved == fdwlog.prepared \ fdwlog.resolved

\* A durable record of a key: a spill file, or a flushed INSERT record at or
\* after the redo horizon of the last completed checkpoint.
HasDurableRecord(key) ==
    \/ \E f \in files : FileKey(f) = key
    \/ \E i \in lastRedo..walFlushed :
          wal[i].type = "INSERT" /\ FileKey(wal[i]) = key

\* C9 as stated: every participant whose prepare returned true has, until its
\* resolve succeeds, a durable record of its entry; recovery after a crash
\* does not fail, and once the server is up the table contains the entry.
C9_DurableUntilResolved ==
    \A key \in PreparedUnresolved :
        /\ HasDurableRecord(key)
        /\ recov.pc # "failed"
        /\ recov.pc = "up" => KeyPresent(key)

\* ------------------------------------------------------------ C10
\* The INSERT records among the first n of the WAL that no later record among
\* them removes.
Outstanding(n) ==
    {i \in 1..n :
        /\ wal[i].type = "INSERT"
        /\ ~\E j \in (i + 1)..n :
              wal[j].type = "REMOVE" /\ FileKey(wal[j]) = FileKey(wal[i])}

\* C10: after redo of the records of any WAL sequence (redo ends at the end
\* of the WAL, or at a record whose replay raises an error), the table holds,
\* for every replayed INSERT record that no later replayed REMOVE record of
\* the same key follows, an entry with the record's key, user mapping and
\* identifier.
C10_RedoReinstates ==
    \A i \in Outstanding(recov.pos - 1) :
        \E s \in EntriesOnArray :
            /\ KeyOf(slots[s]) = FileKey(wal[i])
            /\ slots[s].umid = wal[i].umid
            /\ slots[s].fdw_xact_id = wal[i].fdw_xact_id

\* Redo has replayed a sequence of full length in which a key is inserted,
\* removed and inserted again.
C10_Witness ==
    /\ recov.pc = "up"
    /\ Len(wal) = MaxRedoWal
    /\ \E i, j, k \in 1..Len(wal) :
          /\ i < j /\ j < k
          /\ wal[i].type = "INSERT" /\ wal[j].type = "REMOVE" /\ wal[k].type = "INSERT"
          /\ FileKey(wal[i]) = FileKey(wal[j]) /\ FileKey(wal[j]) = FileKey(wal[k])
          /\ wal[i].fdw_xact_id # wal[k].fdw_xact_id
          /\ k \in Outstanding(Len(wal))

\* ------------------------------------------------------------ C11
\* C11 as stated: replaying a WAL sequence again over the table and the files
\* the first pass left raises no error (an INSERT whose entry is present and
\* a REMOVE whose entry is absent succeed), and at the end of every further
\* pass the entries and the files are those the first pass left.
C11_RedoIdempotent ==
    recov.pass > 1 =>
        /\ recov.pc # "failed"
        /\ recov.pos > Len(wal) => <<Entries(Tbl), files>> = recov.once

\* ------------------------------------------------------------ C12
\* The keys the transaction of backend b registered.
RegKeys(b) ==
    {<<MyDatabaseId(b), be[b].xid, be[b].regs[i].serverid, TheUser>> :
        i \in 1..Len(be[b].regs)}

\* A registered participant of backend b is modified and its probe returned
\* false.
NonCapableModified(b) ==
    \E i \in 1..Len(be[b].regs) :
        be[b].regs[i].modified /\ be[b].probed[be[b].regs[i].serverid] = "false"

\* Number of servers written: modified participants plus one for a local
\* write of a non-temporary relation.
ServersWritten(b) ==
    Cardinality({i \in 1..Len(be[b].regs) : be[b].regs[i].modified})
      + (IF be[b].wrote THEN 1 ELSE 0)

\* The transaction of backend b has made no FDW commit or prepare call, has
\* no entry in the table and no record in the WAL.
NothingDone(b) ==
    /\ \A i \in 1..Len(fdwlog.committed) : fdwlog.committed[i] \notin RegKeys(b)
    /\ fdwlog.prepared \cap RegKeys(b) = {}
    /\ \A s \in {fdw_xacts[i] : i \in 1..Len(fdw_xacts)} :
          slots[s].local_xid # be[b].xid
    /\ \A i \in 1..Len(wal) : wal[i].xid # be[b].xid

InXact(b) == be[b].xid # InvalidTransactionId /\ be[b].pc # "precommit"

\* C12 as stated: with policy required, a transaction with a modified
\* participant whose probe returned false has failed in PreCommit_FdwXacts
\* with the feature-not-supported error, with no FDW commit or prepare call,
\* no entry and no WAL record.
C12_RequiredRejects ==
    \A b \in Backends :
        (/\ InXact(b)
         /\ be[b].policy = DISTRIBUTED_ATOMIC_COMMIT_REQUIRED
         /\ NonCapableModified(b))
          => (be[b].err = "feature_not_supported" /\ NothingDone(b))

\* C12 amended: the same for a transaction that needs atomic commit, that
\* is, that wrote on at least two servers (the local one included).
C12_RequiredRejectsWhenNeeded ==
    \A b \in Backends :
        (/\ InXact(b)
         /\ be[b].policy = DISTRIBUTED_ATOMIC_COMMIT_REQUIRED
         /\ NonCapableModified(b)
         /\ ServersWritten(b) > 1)
          => (be[b].err = "feature_not_supported" /\ NothingDone(b))

\* A transaction with two modified participants, one of them not capable,
\* was rejected under policy required and has aborted.
C12_Witness ==
    \E b \in Backends :
        /\ be[b].pc = "end"
        /\ be[b].policy = DISTRIBUTED_ATOMIC_COMMIT_REQUIRED
        /\ NonCapableModified(b)
        /\ Len(be[b].regs) = 2
        /\ be[b].err = "feature_not_supported"

\* ------------------------------------------------------------ C13
\* C13 as stated: with policy prefer and atomic commit needed, a modified
\* participant whose probe returned false is never about to be prepared and
\* never has an entry.
C13_PreferCommitsNonCapable ==
    \A b \in Backends :
        (InXact(b) /\ be[b].policy = DISTRIBUTED_ATOMIC_COMMIT_PREFER /\ be[b].need)
          => \A i \in 1..Len(be[b].part) :
                (be[b].part[i].modified /\ be[b].probed[be[b].part[i].serverid] = "false")
                  => /\ be[b].part[i].fdw_xact = NULL
                     /\ ~(be[b].pc \in {"insert", "xlog", "valid", "prepare", "mark"}
                            /\ be[b].pidx = i)

\* ------------------------------------------------------------ C14
\* The transaction of backend b modified two servers, one capable and one
\* not, and wrote no non-temporary relation.
OneCapableOneNot(b) ==
    /\ Len(be[b].regs) = 2
    /\ be[b].regs[1].modified /\ be[b].regs[2].modified
    /\ ~be[b].wrote
    /\ {be[b].probed[s] : s \in Servers} = {"true", "false"}

\* C14 as stated: with policy prefer, a transaction that modified a capable
\* and a non-capable server and wrote nothing locally inserts no entry, writes
\* no WAL record and is never about to call prepare.
C14_OneParticipantRule ==
    \A b \in Backends :
        (/\ InXact(b)
         /\ be[b].policy = DISTRIBUTED_ATOMIC_COMMIT_PREFER
         /\ OneCapableOneNot(b))
          => /\ \A s \in {fdw_xacts[i] : i \in 1..Len(fdw_xacts)} :
                   slots[s].local_xid # be[b].xid
             /\ \A i \in 1..Len(wal) : wal[i].xid # be[b].xid
             /\ be[b].pc \notin {"insert", "xlog", "valid", "prepare", "mark"}

\* ------------------------------------------------------------ C15
\* Atomic commit is not needed: the policy is disabled, or no resolver is
\* configured, or at most one server was written.
NoAtomicCommit(b) ==
    \/ be[b].policy = DISTRIBUTED_ATOMIC_COMMIT_DISABLED
    \/ be[b].resolvers = 0
    \/ MaxPrepared = 0
    \/ ServersWritten(b) <= 1

CommitCalls(key) ==
    Cardinality({i \in 1..Len(fdwlog.committed) : fdwlog.committed[i] = key})

\* C15: when atomic commit is not needed, the transaction never enters the
\* prepare path, has no entry and no WAL record, no commit callback is called
\* twice for a participant, and once pre-commit has returned the commit
\* callback has been called exactly once for every registered participant
\* and the participant list is empty.
C15_OnePhaseWhenNotNeeded ==
    \A b \in Backends :
        (InXact(b) /\ NoAtomicCommit(b)) =>
            /\ be[b].pc \notin {"insert", "xlog", "valid", "prepare", "mark",
                                "commit", "waitenter", "waiting"}
            /\ fdwlog.prepared \cap RegKeys(b) = {}
            /\ \A s \in {fdw_xacts[i] : i \in 1..Len(fdw_xacts)} :
                  slots[s].local_xid # be[b].xid
            /\ \A i \in 1..Len(wal) : wal[i].xid # be[b].xid
            /\ \A key \in RegKeys(b) : CommitCalls(key) <= 1
            /\ (be[b].pc \in {"commit1", "forget", "end"} /\ be[b].err = "none")
                  => /\ be[b].part = <<>>
                     /\ \A key \in RegKeys(b) : CommitCalls(key) = 1

\* Under policy required a transaction with two participants, one modified
\* and not capable, committed both one-phase.
C15_Witness ==
    \E b \in Backends :
        /\ be[b].pc = "commit1"
        /\ be[b].policy = DISTRIBUTED_ATOMIC_COMMIT_REQUIRED
        /\ be[b].resolvers > 0
        /\ Len(be[b].regs) = 2
        /\ NonCapableModified(b)
        /\ Len(fdwlog.committed) = 2

\* ------------------------------------------------------------ C16
\* The resolver's call of the FDW's resolve callback returns false: the step
\* from "call" that abandons the resolution.
ResolveFailedStep(p) == rs[p].pc = "call" /\ rs'[p].pc = "idle"

\* C16: when resolve fails for a waiter taken from the active queue and
\* still linked in it, the waiter leaves the active queue, becomes the tail
\* of the retry queue with state WaitingRetry, and no entry is removed; when
\* it fails for a waiter of the retry queue the waiter stays in the retry
\* queue with state WaitingRetry; and the end of a pass over the retry queue
\* in which every resolve succeeded takes the waiter out of the queue and
\* sets its state to WaitComplete while it is in its wait loop (which then
\* returns).
C16_FailedWaiterRetried ==
    [][LET p == "resolver"
           w == rs[p].waiter
       IN /\ (ResolveFailedStep(p) /\ rs[p].caller = "active" /\ InQueue(activeQ, w))
                => /\ ~InQueue(activeQ', w)
                   /\ retryQ' # <<>> /\ retryQ'[Len(retryQ')] = w
                   /\ Occurrences(retryQ', w) = 1
                   /\ be'[w].fdwXactState = FDW_XACT_WAITING_RETRY
                   /\ UNCHANGED <<tblVars, walVars, files>>
          /\ (ResolveFailedStep(p) /\ rs[p].caller = "retry" /\ InQueue(retryQ, w))
                => /\ retryQ' = retryQ
                   /\ be'[w].fdwXactState = FDW_XACT_WAITING_RETRY
                   /\ UNCHANGED <<tblVars, walVars, files>>
          /\ (rs[p].pc = "finish" /\ rs'[p].pc = "idle" /\ rs[p].caller = "retry"
                /\ InQueue(retryQ, w))
                => /\ ~InQueue(retryQ', w) /\ ~InQueue(activeQ', w)
                   /\ be'[w].fdwXactState = FDW_XACT_WAIT_COMPLETE
                   /\ be'[w].pc = "waiting"]_vars

\* A pass over the retry queue has resolved every entry of a waiter that an
\* earlier failure moved there, and is about to release it.
C16_Witness ==
    /\ rs["resolver"].pc = "finish"
    /\ rs["resolver"].caller = "retry"
    /\ rs["resolver"].participants # <<>>
    /\ InQueue(retryQ, rs["resolver"].waiter)
    /\ be[rs["resolver"].waiter].fdwXactState = FDW_XACT_WAITING_RETRY

\* ------------------------------------------------------------ C17
\* An entry of the resolver's database with the key is in the table of the
\* running server, held by nobody, its local xid not a prepared transaction.
Dangling(key) ==
    /\ ~inRecovery
    /\ \E s \in {fdw_xacts[i] : i \in 1..Len(fdw_xacts)} :
          /\ KeyOf(slots[s]) = key
          /\ slots[s].dbid = ResolverDb
          /\ slots[s].held_by = InvalidBackendId
          /\ ~TwoPhaseExists(slots[s].local_xid)

\* C17: while the resolver keeps running FdwXactResolveAllDanglingTransactions
\* and resolve returns true again and again, every entry that is held by
\* nobody is eventually gone from the table.
C17_DanglingEventuallyResolved ==
    \A x \in Xids, srv \in Servers :
        Dangling(<<ResolverDb, x, srv, TheUser>>)
            ~> ~KeyPresent(<<ResolverDb, x, srv, TheUser>>)

\* After a crash and recovery the resolver is about to remove an entry it
\* found dangling and resolved.
C17_Witness ==
    /\ recov.crashes > 0
    /\ recov.pc = "up"
    /\ rs["resolver"].caller = "dangling"
    /\ rs["resolver"].pc = "remove"
    /\ rs["resolver"].ret

\* ------------------------------------------------------------ C18
\* The flushed part of the WAL holds the INSERT record of the key.
InsertDurable(key) ==
    \E i \in 1..walFlushed :
        wal[i].type = "INSERT" /\ <<wal[i].dbid, wal[i].xid, wal[i].serverid, wal[i].userid>> = key

PartKey(b, i) ==
    <<MyDatabaseId(b), be[b].xid, be[b].part[i].serverid, be[b].part[i].userid>>

\* C18: for a local xid that commits, every step of the protocol finds the
\* steps before it done: prepare is called with the INSERT record durable,
\* the commit record is written with every participant prepared, resolve is
\* called with the entry's status CommittingPrepared and for a commit, and a
\* REMOVE record is written after a call of resolve.
C18_CommitOrder ==
    [][ /\ \A b \in Backends :
              be[b].pc = "prepare" /\ be'[b].pc # "prepare"
                  => InsertDurable(PartKey(b, be[b].pidx))
        /\ \A b \in Backends :
              be[b].pc = "commit" /\ be'[b].pc = "waitenter"
                  => \A i \in 1..Len(be[b].part) : PartKey(b, i) \in fdwlog.prepared
        /\ \A p \in DOMAIN rs :
              /\ rs[p].pc = "call" /\ rs'[p].pc # "call"
              /\ TransactionIdDidCommit(rs[p].state[2])
              => /\ rs[p].is_commit
                 /\ \E i \in 1..Len(fdw_xacts) :
                       /\ KeyOf(slots[fdw_xacts[i]]) = rs[p].state
                       /\ slots[fdw_xacts[i]].status = FDW_XACT_COMMITTING_PREPARED
        /\ \A i \in (Len(wal) + 1)..Len(wal') :
              wal'[i].type = "REMOVE" /\ TransactionIdDidCommit(wal'[i].xid)
                  => fdwlog.resolvedAs[wal'[i].xid] # {}
      ]_vars

\* ------------------------------------------------------------ C19
FileKeys == {FileKey(f) : f \in files}

OnDiskKeys ==
    {KeyOf(slots[fdw_xacts[i]]) : i \in {j \in 1..Len(fdw_xacts) : slots[fdw_xacts[j]].ondisk}}

\* C19: the spill file of a key exists exactly when the table holds an entry
\* with that key whose ondisk flag is set, so that no file outlives its entry.
C19_FileIffOnDisk == FileKeys = OnDiskKeys

\* ------------------------------------------------------------ C20
\* The steps of the status of an entry, removal read as the slot's return to
\* FDW_XACT_INITIAL, along the chain without a skip.
ChainSteps ==
    {<<FDW_XACT_INITIAL, FDW_XACT_PREPARING>>,
     <<FDW_XACT_PREPARING, FDW_XACT_PREPARED>>,
     <<FDW_XACT_PREPARED, FDW_XACT_COMMITTING_PREPARED>>,
     <<FDW_XACT_PREPARED, FDW_XACT_ABORTING_PREPARED>>,
     <<FDW_XACT_COMMITTING_PREPARED, FDW_XACT_INITIAL>>,
     <<FDW_XACT_ABORTING_PREPARED, FDW_XACT_INITIAL>>}

\* The steps that leave Preparing and skip Prepared.
SkipSteps ==
    {<<FDW_XACT_PREPARING, FDW_XACT_COMMITTING_PREPARED>>,
     <<FDW_XACT_PREPARING, FDW_XACT_ABORTING_PREPARED>>,
     <<FDW_XACT_PREPARING, FDW_XACT_INITIAL>>}

\* A step of the running or recovering server that changes the status of
\* slot s; the crash itself, which loses shared memory, is none.
StatusStep(s) ==
    /\ recov'.crashes = recov.crashes
    /\ slots'[s].status # slots[s].status

C21_NoLockInCallback ==
    \A b \in Backends : be[b].doing = "callback" => be[b].held = "none"

\* A process is in a callback after it has held the lock in this function,
\* while another process holds the lock.
C21_Witness ==
    \E b, c \in Backends :
        /\ be[b].doing = "callback"
        /\ \E i \in 1..(be[b].ip - 1) : be[b].ops[i] = AcqX
        /\ be[c].held = "exclusive"

\* ------------------------------------------------------------ C22
\* C22: no process holds FdwXactLock while it reads, writes, fsyncs or
\* unlinks a spill file or inserts and flushes WAL.
C22_NoLockInFileIO ==
    \A b \in Backends : be[b].doing = "io" => be[b].held = "none"

\* ------------------------------------------------------------ C24
\* The backend has got its identifier and gone on from there.
GotPrepareId(b) == be[b].pc \notin {"idle", "getid"}

\* C24: an identifier of at most FDW_XACT_ID_MAX_LEN bytes is accepted; a
\* longer or a missing one is an error, raised before the participant's entry
\* is inserted and before prepare is called.
C24_PrepareIdLimit ==
    \A b \in Backends :
        GotPrepareId(b) =>
            IF be[b].id # NoId /\ be[b].id <= FDW_XACT_ID_MAX_LEN
            THEN be[b].err = "none"
            ELSE /\ be[b].err # "none"
                 /\ be[b].pc = "abort"
                 /\ fdw_xacts = <<>>
                 /\ wal = <<>>
                 /\ fdwlog.prepared = {}

\* ------------------------------------------------------------ C23
\* C23: a backend's delayChkpt is set from the emission of its INSERT record
\* until valid is set; a checkpoint does not complete while a backend has
\* delayChkpt set; so when a checkpoint scans the table, an entry that is
\* neither valid nor inRedo has no INSERT record before the checkpoint's
\* redo horizon.
C23_DelayChkptWindow ==
    /\ [](\A b \in Backends : be[b].pc = "valid" => be[b].delayChkpt)
    /\ [][ckpt.pc = "record" /\ ckpt'.pc = "idle" /\ ~inRecovery'
            => \A b \in Backends : ~be[b].delayChkpt]_vars
    /\ [][ckpt.pc = "flush" /\ ckpt'.pc = "record"
            => \A i \in 1..Len(fdw_xacts) :
                 LET e == slots[fdw_xacts[i]] IN
                 (~e.valid /\ ~e.inredo
                    /\ e.insert_start_lsn # InvalidXLogRecPtr)
                 => e.insert_start_lsn >= ckpt.redo]_vars

C23_Witness ==
    /\ ckpt.pc = "record"
    /\ \E i \in 1..Len(fdw_xacts) :
         LET e == slots[fdw_xacts[i]] IN
         /\ ~e.valid /\ ~e.inredo
         /\ e.insert_start_lsn # InvalidXLogRecPtr
         /\ e.insert_start_lsn >= ckpt.redo

\* ------------------------------------------------------------ C25
\* A backend inside a transaction that registers participants.
Registering(b) == be[b].pc \in {"register", "abort"}

\* The registration just made found its pair in the list at index i.
RepeatAt(b, i) ==
    /\ be[b].pc = "register"
    /\ be'[b].pc \in {"register", "abort"}
    /\ be'[b].ncalls = be[b].ncalls + 1
    /\ i \in 1..Len(be[b].part)
    /\ be[b].part[i].serverid = be'[b].last[1]
    /\ be[b].part[i].userid = be'[b].last[2]

\* C25: after any sequence of registrations in one transaction the list has
\* at most one participant per (serverid, userid), whose modified is the OR
\* of the modified arguments of the registrations of that pair; a repeat
\* registration changes nothing but that flag.
C25_RegisterOnce ==
    /\ [](\A b \in Backends : Registering(b) =>
            /\ \A i, j \in 1..Len(be[b].part) :
                  (/\ be[b].part[i].serverid = be[b].part[j].serverid
                   /\ be[b].part[i].userid = be[b].part[j].userid) => i = j
            /\ \A i \in 1..Len(be[b].part) :
                  be[b].part[i].modified
                    <=> <<be[b].part[i].serverid, be[b].part[i].userid, TRUE>>
                           \in be[b].calls)
    /\ [][\A b \in Backends : \A i \in 1..MaxRegCalls :
            RepeatAt(b, i) =>
              be'[b] = [be[b] EXCEPT !.part[i].modified = @ \/ be'[b].last[3],
                                     !.calls = be'[b].calls,
                                     !.ncalls = be'[b].ncalls,
                                     !.last = be'[b].last]]_vars

\* ------------------------------------------------------------ C26
\* The registration just made was for a server of FDW routine r.
CallFor(b, r) ==
    /\ be[b].pc = "register"
    /\ be'[b].pc \in {"register", "abort"}
    /\ be'[b].ncalls = be[b].ncalls + 1
    /\ be[b].routine[be'[b].last[1]] = r

\* The call flagged the transaction and returned: no ERROR, no participant
\* added.
FlaggedOnly(b) ==
    /\ be'[b].noprepare
    /\ be'[b].err = "none"
    /\ be'[b].pc = "register"
    /\ be'[b].part = be[b].part

\* C26 as stated: registering a server whose FDW has no prepare callback sets
\* XACT_FLAGS_FDWNOPREPARE and returns without an ERROR and without adding a
\* participant.
C26_NoPrepareFlagged ==
    [][\A b \in Backends : \A r \in FdwRoutines :
         (CallFor(b, r) /\ ~r.PrepareForeignTransaction) => FlaggedOnly(b)]_vars

\* C26 amended: registering a server whose FDW has no IsTwoPhaseCommitEnabled
\* callback sets XACT_FLAGS_FDWNOPREPARE and returns without an ERROR and
\* without adding a participant.
C26_NoApiFlagged ==
    [][\A b \in Backends : \A r \in FdwRoutines :
         (CallFor(b, r) /\ ~r.IsTwoPhaseCommitEnabled) => FlaggedOnly(b)]_vars

C26_Witness ==
    \E b \in Backends :
       /\ be[b].pc = "register"
       /\ be[b].ncalls > 0
       /\ ~be[b].routine[be[b].last[1]].IsTwoPhaseCommitEnabled
       /\ be[b].routine[be[b].last[1]].PrepareForeignTransaction
       /\ be[b].noprepare
       /\ be[b].part # <<>>

\* ------------------------------------------------------------ C27
\* Slot f holds an entry that is being inserted: on the array, neither valid
\* nor inredo.
BeingInserted(f) ==
    /\ \E i \in 1..Len(fdw_xacts) : fdw_xacts[i] = f
    /\ ~slots[f].valid
    /\ ~slots[f].inredo

\* C27: an entry that is neither valid nor inRedo is changed or removed only
\* by a step of the backend inserting it, and no resolver, dangling scan,
\* pg_resolve_fdw_xact or wait-list lookup selects it.
C27_InvalidEntryPrivate ==
    [][\A f \in Slots : BeingInserted(f) =>
         /\ (slots'[f] # slots[f] \/ ~\E i \in 1..Len(fdw_xacts') : fdw_xacts'[i] = f)
               => /\ slots[f].held_by \in Backends
                  /\ be'[slots[f].held_by] # be[slots[f].held_by]
         /\ \A p \in ResolverProcs :
               rs'[p] # rs[p] =>
                 ~\E i \in 1..Len(rs'[p].participants) : rs'[p].participants[i] = f]_vars

\* ------------------------------------------------------------ C29
\* C29: when a backend enters FdwXactWaitToBeResolved(xid, true) for the
\* transaction it has just prepared, every entry of that xid whose status is
\* Prepared is CommittingPrepared once the backend is on the queue, and an
\* entry whose status is already decided keeps it.
C29_DecidedAtEnqueue ==
    [][\A b \in Backends :
         (be[b].pc = "waitenter" /\ be'[b].fdwXactState = FDW_XACT_WAITING)
         => \A i \in 1..Len(fdw_xacts) :
              LET f == fdw_xacts[i] IN
              slots[f].local_xid = be[b].xid
              => slots'[f].status =
                   IF slots[f].status = FDW_XACT_PREPARED
                   THEN FDW_XACT_COMMITTING_PREPARED
                   ELSE slots[f].status]_vars

\* ------------------------------------------------------------ C30
\* The entries CheckPointFdwXacts(redo_horizon) has to write: valid or inredo,
\* not on disk, INSERT record ended at or before the horizon.
ToSpill(f, redo_horizon) ==
    /\ slots[f].valid \/ slots[f].inredo
    /\ ~slots[f].ondisk
    /\ slots[f].insert_end_lsn <= redo_horizon

\* C30: CheckPointFdwXacts(redoHorizon) writes a file for exactly the entries
\* that are valid or inRedo, not onDisk and have insertEndLsn <= redoHorizon,
\* sets their ondisk and clears their LSNs, and leaves every other entry, the
\* number of entries and each entry's key, status and held_by unchanged.
C30_CheckpointSpills ==
    [][(ckpt.pc = "flush" /\ ckpt'.pc = "record") =>
         /\ fdw_xacts' = fdw_xacts
         /\ \A i \in 1..Len(fdw_xacts) :
              LET f == fdw_xacts[i] IN
              IF ToSpill(f, ckpt.redo)
              THEN /\ slots'[f] = [slots[f] EXCEPT
                                     !.ondisk = TRUE,
                                     !.insert_start_lsn = InvalidXLogRecPtr,
                                     !.insert_end_lsn = InvalidXLogRecPtr]
                   /\ FileOf(slots[f]) \in files'
              ELSE slots'[f] = slots[f]
         /\ \A file \in files' \ files :
              \E i \in 1..Len(fdw_xacts) :
                 /\ ToSpill(fdw_xacts[i], ckpt.redo)
                 /\ file = FileOf(slots[fdw_xacts[i]])
         /\ \A file \in files \ files' :
              \E i \in 1..Len(fdw_xacts) :
                 /\ ToSpill(fdw_xacts[i], ckpt.redo)
                 /\ FileKey(file) = KeyOf(slots[fdw_xacts[i]])]_vars

C30_Witness ==
    /\ ckpt.pc = "record"
    /\ \E i, j \in 1..Len(fdw_xacts) :
         /\ slots[fdw_xacts[i]].ondisk
         /\ KeyOf(slots[fdw_xacts[i]]) \in {FileKey(file) : file \in files}
         /\ ~slots[fdw_xacts[j]].ondisk

\* ------------------------------------------------------------ C28
\* The records of a type the WAL holds for a key.
RecordsOf(type, key) ==
    {j \in 1..Len(wal) :
        /\ wal[j].type = type
        /\ <<wal[j].dbid, wal[j].xid, wal[j].serverid, wal[j].userid>> = key}

\* Backend b has returned from FdwXactWaitToBeResolved and still has its
\* participant list: every participant was resolved as a commit, its key has
\* one INSERT and one REMOVE record, and the table is empty.
HappyEnd(b) ==
    /\ be[b].pc = "forget"
    /\ be[b].fdwXactState = FDW_XACT_NOT_WAITING
    /\ Len(be[b].part) = 2
    /\ fdwlog.resolvedAs[be[b].xid] = {TRUE}
    /\ \A i \in 1..Len(be[b].part) :
          /\ PartKey(b, i) \in fdwlog.resolved
          /\ Cardinality(RecordsOf("INSERT", PartKey(b, i))) = 1
          /\ Cardinality(RecordsOf("REMOVE", PartKey(b, i))) = 1
    /\ numFdwXacts = 0

\* C28: on the happy path (policy prefer, two modified servers capable of
\* two-phase commit, prepare and resolve succeed, the resolver runs) the
\* backend that starts its commit eventually returns from the wait, which it
\* does only with WaitComplete; resolve is called once per entry, with
\* isCommit true; the WAL gets one INSERT and one REMOVE record per entry; and
\* the table is empty at the end.
C28_HappyPath ==
    /\ \A b \in Backends : (be[b].pc = "precommit") ~> HappyEnd(b)
    /\ [][\A b \in Backends :
            (be[b].pc = "waiting" /\ be'[b].pc # "waiting")
            => be[b].fdwXactState = FDW_XACT_WAIT_COMPLETE]_vars
    /\ [][(rs["resolver"].pc = "call" /\ rs'["resolver"].pc # "call")
            => /\ rs["resolver"].is_commit
               /\ rs["resolver"].state \notin fdwlog.resolved]_vars
    /\ [](\A d \in Dbs, x \in Xids, s \in Servers, u \in Users :
            /\ Cardinality(RecordsOf("INSERT", <<d, x, s, u>>)) <= 1
            /\ Cardinality(RecordsOf("REMOVE", <<d, x, s, u>>)) <= 1)

C28_Witness == \E b \in Backends : HappyEnd(b)

\* ------------------------------------------------------------ C31
\* C31: after restoreFdwXactData every entry, reinstated from a file, has
\* inredo set, valid clear and ondisk set; after RecoverFdwXacts at the end
\* of redo every entry left in the table has inredo clear and valid set,
\* also when RecoverFdwXacts itself removed an entry of a future xid.
C31_RestoreRecoverFlags ==
    /\ [][(recov.pc = "restore" /\ recov'.pc = "redo") =>
            \A i \in 1..Len(fdw_xacts') :
               LET e == slots'[fdw_xacts'[i]] IN
               e.inredo /\ ~e.valid /\ e.ondisk]_vars
    /\ [](recov.pc = "up" =>
            \A i \in 1..Len(fdw_xacts) :
               LET e == slots[fdw_xacts[i]] IN
               ~e.inredo /\ e.valid)

\* ------------------------------------------------------------ C32
\* A file of the directory the startup found that fails validation: a bad
\* CRC, a truncated or misaligned length, a header that does not match the
\* name, or an xid that does not precede nextXid.
FailsValidation(f) ==
    \/ f.crc # COMP_CRC32C(f.hdr, f.umid, f.fdw_xact_id)
    \/ f.size # "aligned"
    \/ f.hdr # FileKey(f)
    \/ f.xid >= nextXid

\* C32: a spill file that fails validation is deleted and treated as absent:
\* after startup the directory has no file of its name, the table holds an
\* entry of its key only if a replayed INSERT record added it, and no entry
\* has ondisk set without a file.
C32_InvalidFileAbsent ==
    recov.pc = "up" =>
      /\ \A f \in recov.dir : FailsValidation(f) =>
            /\ \A g \in files : FileKey(g) # FileKey(f)
            /\ (\E i \in 1..Len(fdw_xacts) : KeyOf(slots[fdw_xacts[i]]) = FileKey(f))
                  => RecordsOf("INSERT", FileKey(f)) # {}
      /\ \A i \in 1..Len(fdw_xacts) :
            slots[fdw_xacts[i]].ondisk
              => \E g \in files : FileKey(g) = KeyOf(slots[fdw_xacts[i]])

\* Startup is over; the directory held a file with a bad CRC, and the table a
\* restored entry.
C32_Witness ==
    /\ recov.pc = "up"
    /\ \E f \in recov.dir :
          /\ f.size = "aligned"
          /\ f.crc # COMP_CRC32C(f.hdr, f.umid, f.fdw_xact_id)
          /\ ~TransactionIdFollowsOrEquals(f.xid, nextXid)
    /\ \E i \in 1..Len(fdw_xacts) : slots[fdw_xacts[i]].ondisk

\* ------------------------------------------------------------ C33
\* File g holds the data of entry e.
HoldsEntry(g, e) ==
    /\ FileKey(g) = KeyOf(e)
    /\ g.hdr = KeyOf(e)
    /\ g.umid = e.umid
    /\ g.fdw_xact_id = e.fdw_xact_id

\* C33: an entry a checkpoint spills gets a file that holds its dbid, xid,
\* serverid, userid, umid and identifier, and has its WAL pointers cleared;
\* an entry restoreFdwXactData reinstates after a restart has the data of
\* its file; so the reinstated entry has the data of the spilled one.
C33_SpillRoundTrip ==
    /\ [][(ckpt.pc = "flush" /\ ckpt'.pc = "record") =>
            \A i \in 1..Len(fdw_xacts) :
               LET f == fdw_xacts[i] IN
               ToSpill(f, ckpt.redo) =>
                 /\ \E g \in files' : HoldsEntry(g, slots[f])
                 /\ slots'[f].insert_start_lsn = InvalidXLogRecPtr
                 /\ slots'[f].insert_end_lsn = InvalidXLogRecPtr]_vars
    /\ [][(recov.pc = "restore" /\ recov'.pc = "redo") =>
            /\ Len(fdw_xacts') = Cardinality(files)
            /\ \A i \in 1..Len(fdw_xacts') :
                 \E g \in files : HoldsEntry(g, slots'[fdw_xacts'[i]])]_vars
    /\ [][\A g \in files' \ files : ckpt.pc = "flush" /\ ckpt'.pc = "record"]_vars

C33_Witness ==
    /\ recov.pc = "redo"
    /\ \E i \in 1..Len(fdw_xacts) :
          /\ slots[fdw_xacts[i]].ondisk
          /\ \E g \in files : HoldsEntry(g, slots[fdw_xacts[i]])

\* ------------------------------------------------------------ C34
\* The backend is aborting because the prepare callback of its current
\* participant returned false.
PrepareFailed(b) ==
    /\ be[b].pc \in {"abort", "rollback"}
    /\ CurPart(b).fdw_xact # NULL

\* Participant i of backend b has its entry in the table.
EntryInTable(b, i) ==
    LET f == be[b].part[i].fdw_xact IN
    /\ f # NULL
    /\ \E j \in 1..Len(fdw_xacts) : fdw_xacts[j] = f
    /\ KeyOf(slots[f]) = PartKey(b, i)

\* C34: when prepare returns false for participant k the local transaction
\* aborts and no later participant is prepared; the entries of participants
\* 1..k stay in the table held by the backend until the end of the
\* transaction clears their held_by; the rollback callback is called for the
\* participants without an entry or with a Preparing entry and not for those
\* with a Prepared entry; resolve is only ever called with isCommit = false
\* for the xid.
C34_PrepareFailure ==
    /\ [](\A b \in Backends : PrepareFailed(b) =>
            /\ clog[be[b].xid] # "committed"
            /\ \A i \in 1..Len(be[b].part) :
                 /\ i >= be[b].pidx => PartKey(b, i) \notin fdwlog.prepared
                 /\ i > be[b].pidx => be[b].part[i].fdw_xact = NULL
                 /\ i <= be[b].pidx =>
                      EntryInTable(b, i) /\ slots[be[b].part[i].fdw_xact].held_by = b)
    /\ [][\A b \in Backends :
            (PrepareFailed(b) /\ be[b].pc = "abort" /\ be'[b].pc # "abort") =>
               clog'[be[b].xid] = "aborted" /\ be'[b].pc = "rollback"]_vars
    /\ [][\A key \in fdwlog'.prepared \ fdwlog.prepared : clog[key[2]] = "none"]_vars
    /\ [][\A b \in Backends :
            (PrepareFailed(b) /\ be[b].pc = "rollback" /\ be'[b].pc # "rollback") =>
               \A i \in 1..Len(be[b].part) :
                  LET f == be[b].part[i].fdw_xact IN
                  /\ (f = NULL \/ slots[f].status = FDW_XACT_PREPARING)
                       <=> PartKey(b, i) \in fdwlog'.rolledback
                  /\ (f # NULL /\ slots[f].status = FDW_XACT_PREPARED)
                       <=> PartKey(b, i) \notin fdwlog'.rolledback]_vars
    /\ [][\A b \in Backends :
            (/\ be[b].pc = "forget" /\ be'[b].pc # "forget"
             /\ clog[be[b].xid] = "aborted") =>
               /\ be'[b].part = <<>>
               /\ \A i \in 1..Len(be[b].part) :
                    LET f == be[b].part[i].fdw_xact IN
                    f # NULL =>
                      /\ \E j \in 1..Len(fdw_xacts') : fdw_xacts'[j] = f
                      /\ KeyOf(slots'[f]) = PartKey(b, i)
                      /\ slots'[f].held_by = InvalidBackendId]_vars
    /\ [](\A x \in Xids : clog[x] = "aborted" => TRUE \notin fdwlog.resolvedAs[x])

\* The second participant's prepare failed, the first was left Prepared and
\* has been resolved as an abort.
C34_Witness ==
    \E x \in Xids :
       /\ clog[x] = "aborted"
       /\ \E k1, k2 \in fdwlog.prepared \cup fdwlog.rolledback :
             /\ k1[2] = x /\ k2[2] = x
             /\ k1 \in fdwlog.prepared /\ k1 \notin fdwlog.rolledback
             /\ k2 \in fdwlog.rolledback /\ k2 \notin fdwlog.prepared
             /\ k1 \in fdwlog.resolved
             /\ \E i \in 1..Len(fdw_xacts) :
                   /\ KeyOf(slots[fdw_xacts[i]]) = k2
                   /\ slots[fdw_xacts[i]].held_by = InvalidBackendId
       /\ fdwlog.resolvedAs[x] = {FALSE}

\* ------------------------------------------------------------ C35
\* The slots the backend's participants point to that the backend holds.
HeldByCaller(b) ==
    {s \in Slots : /\ \E i \in 1..Len(be[b].part) : be[b].part[i].fdw_xact = s
                   /\ slots[s].held_by = b}

\* The oldest local xid of the valid entries of the table after the step.
OldestValidAfter ==
    LET V == {slots'[fdw_xacts'[i]].local_xid :
                 i \in {j \in 1..Len(fdw_xacts') : slots'[fdw_xacts'[j]].valid}}
    IN IF V = {} THEN InvalidTransactionId
       ELSE CHOOSE x \in V : \A y \in V : x <= y

\* C35: ForgetAllFdwXactParticipants clears held_by on the slots its
\* participants point to and the calling backend holds, and changes no other
\* slot (a slot freed by the resolver and reused by another backend among
\* them); it empties the participant list, and the oldest unresolved xmin is
\* recomputed exactly when an entry was left.
C35_ForgetFrame ==
    /\ [][\A b \in Backends :
            (be[b].pc = "forget" /\ be'[b].pc # "forget") =>
               /\ \A s \in Slots :
                    slots'[s] = IF s \in HeldByCaller(b)
                                THEN [slots[s] EXCEPT !.held_by = InvalidBackendId]
                                ELSE slots[s]
               /\ fdw_xacts' = fdw_xacts
               /\ freeFdwXacts' = freeFdwXacts
               /\ unresolvedXmin' = unresolvedXmin
               /\ be'[b].part = <<>>
               /\ be'[b].pc = IF HeldByCaller(b) # {} THEN "xmin" ELSE "end"]_vars
    /\ [][\A b \in Backends :
            (be[b].pc = "xmin" /\ be'[b].pc # "xmin") =>
               /\ unresolvedXmin' = OldestValidAfter
               /\ UNCHANGED tblVars]_vars

\* A backend with two participants has forgotten them: the resolver had
\* removed the entry of the first, another backend holds an entry in a slot
\* of the table, and the entry of the second was left.
C35_Witness ==
    \E b, b2 \in Backends :
       /\ b2 # b
       /\ be[b].pc = "xmin"
       /\ be[b].n_lefts = 1
       /\ \E i \in 1..Len(wal) : wal[i].type = "REMOVE" /\ wal[i].xid = be[b].xid
       /\ \E i, j \in 1..Len(fdw_xacts) :
             /\ slots[fdw_xacts[i]].local_xid = be[b].xid
             /\ slots[fdw_xacts[i]].held_by = InvalidBackendId
             /\ slots[fdw_xacts[j]].held_by = b2

\* ------------------------------------------------------------ C36
\* The number of times backend b is linked in queue q.
Links(q, b) == Cardinality({i \in 1..Len(q) : q[i] = b})

\* C36: between the locked sections every backend is linked at most once, on
\* the active queue exactly when its state is Waiting, on the retry queue
\* exactly when it is WaitingRetry, on no queue when it is NotWaiting or
\* WaitComplete; a backend leaves FdwXactWaitToBeResolved with state
\* NotWaiting and on no queue.
C36_QueueMatchesState ==
    /\ [](\A b \in Backends :
            /\ Links(activeQ, b) + Links(retryQ, b) <= 1
            /\ Links(activeQ, b) = 1 <=> be[b].fdwXactState = FDW_XACT_WAITING
            /\ Links(retryQ, b) = 1 <=> be[b].fdwXactState = FDW_XACT_WAITING_RETRY
            /\ be[b].fdwXactState \in {FDW_XACT_NOT_WAITING, FDW_XACT_WAIT_COMPLETE}
                 => Links(activeQ, b) + Links(retryQ, b) = 0)
    /\ [][\A b \in Backends :
            (be[b].pc = "waiting" /\ be'[b].pc # "waiting") =>
               /\ be'[b].fdwXactState = FDW_XACT_NOT_WAITING
               /\ Links(activeQ', b) + Links(retryQ', b) = 0]_vars

\* One backend waits on the retry queue, another on the active queue, and the
\* resolver is at work for one of them.
C36_Witness ==
    \E b, b2 \in Backends :
       /\ Links(retryQ, b) = 1
       /\ be[b].fdwXactState = FDW_XACT_WAITING_RETRY
       /\ Links(activeQ, b2) = 1
       /\ be[b2].fdwXactState = FDW_XACT_WAITING
       /\ rs["resolver"].pc # "idle"

\* ------------------------------------------------------------ C37
\* The transaction registered, as modified, a server that is not capable of
\* two-phase commit: its FDW has no IsTwoPhaseCommitEnabled, or the callback
\* returned false.
ModifiedNonCapable(b) ==
    \E c \in be[b].calls :
       /\ c[3]
       /\ \/ ~be[b].routine[c[1]].IsTwoPhaseCommitEnabled
          \/ be[b].probed[c[1]] = "false"

\* C37: under policy required PreCommit_FdwXacts raises the
\* feature-not-supported error only for a transaction that modified a server
\* that is not capable of two-phase commit; a transaction that modified two
\* capable servers and only read from a non-capable one goes on to prepare
\* its two participants.
C37_RequiredFailsOnlyForModified ==
    \A b \in Backends :
       /\ (be[b].pc = "abort" /\ be[b].err = "feature_not_supported")
             => ModifiedNonCapable(b)
       /\ (/\ be[b].pc \in {"abort", "commit1", "insert"}
           /\ be[b].policy = DISTRIBUTED_ATOMIC_COMMIT_REQUIRED
           /\ ~ModifiedNonCapable(b)
           /\ \E c \in be[b].calls : ~c[3] /\ ~be[b].routine[c[1]].IsTwoPhaseCommitEnabled
           /\ \A s \in Servers : <<s, GetUserId, TRUE>> \in be[b].calls
           /\ be[b].err # "commit_failed")
             => be[b].pc = "insert" /\ Len(be[b].part) = 2

\* ------------------------------------------------------------ C38
\* The waiters of database dbid in queue q, in queue order.
WaitersOf(q, dbid) == SelectSeq(q, LAMBDA w : be[w].databaseId = dbid)

\* C38: FdwXactResolveDistributedTransaction leaves its fetch loop for every
\* content of the target queue; it returns false with the lock released when
\* the queue holds no waiter of dbid, and otherwise has selected the first
\* waiter of dbid in queue order.
C38_FetchTerminates ==
    /\ (rs["resolver"].pc = "fetch") ~> (rs["resolver"].pc \in {"returned", "selected"})
    /\ [](rs["resolver"].pc \in {"returned", "selected"} =>
            LET r == rs["resolver"]
                ws == WaitersOf(IF r.caller = "active" THEN activeQ ELSE retryQ, r.dbid)
            IN IF ws = <<>>
               THEN r.pc = "returned" /\ ~r.ret /\ r.lock = "none"
               ELSE r.pc = "selected" /\ r.waiter = Head(ws))

\* ------------------------------------------------------------ C39
\* The REMOVE records of a key in the WAL.
RemovesOf(key) ==
    {i \in 1..Len(wal) :
        /\ wal[i].type = "REMOVE"
        /\ <<wal[i].dbid, wal[i].xid, wal[i].serverid, wal[i].userid>> = key}

\* C39: an entry is removed at most once, and the entry that
\* FdwXactResolveForeignTransaction removes after re-acquiring the lock is
\* the entry of the key it called the resolve callback for, never the entry
\* of another key that was put into the slot in the meantime.
C39_RemovedOnceAsResolved ==
    /\ [](\A x \in Xids, s \in Servers :
            Cardinality(RemovesOf(<<ResolverDb, x, s, TheUser>>)) <= 1)
    /\ [][\A p \in ResolverProcs :
            (rs[p].pc = "remove" /\ rs'[p].pc # "remove"
               /\ Len(fdw_xacts') < Len(fdw_xacts)) =>
               KeyOf(slots[rs[p].fdwxact]) = rs[p].state]_vars

\* The calls that send a command whenever the entry has a connection.
IncompleteUses ==
    {"GetConnectionState", "postgresPrepareForeignTransaction",
     "postgresRollbackForeignTransaction", "resolve"}

\* ------------------------------------------------------------ C40
\* C40: no command is sent on a connection whose transaction-state change did
\* not complete; a call that uses the entry of such a connection closes the
\* connection; and after pgfdw_cleanup_after_transaction the entry has
\* xact_depth 0, changing_xact_state false and no connection or an idle one.
C40_IncompleteNeverReused ==
    /\ [](~be[ConnBackend].misused)
    /\ [][be[ConnBackend].incomplete =>
             \/ be'[ConnBackend].conn = NULL
             \/ /\ be'[ConnBackend].call \notin IncompleteUses
                /\ be'[ConnBackend].incomplete
                /\ be'[ConnBackend].status = be[ConnBackend].status
                /\ be'[ConnBackend].trans = be[ConnBackend].trans]_vars
    /\ [](be[ConnBackend].cleaned =>
            /\ be[ConnBackend].xact_depth = 0
            /\ ~be[ConnBackend].changing_xact_state
            /\ \/ be[ConnBackend].conn = NULL
               \/ be[ConnBackend].status = "ok" /\ be[ConnBackend].trans = "idle")

\* An incomplete connection was closed by the call that found it, and one was
\* closed by the cleanup at the end of the transaction.
C40_Witness ==
    /\ be[ConnBackend].call = "GetConnectionState"
    /\ be[ConnBackend].raised
    /\ be[ConnBackend].conn = NULL
    /\ be[ConnBackend].changing_xact_state
    /\ be[ConnBackend].xact_depth > 0

====
